---- MODULE Spec2Model ----
(***************************************************************************)
(* The marginal value / mechanism coverage engine of the Serif dashboard   *)
(* (marginalValueEngine.ts, mechanismCatalog.ts, dataValue/types.ts).      *)
(*                                                                         *)
(* The engine is a set of synchronous functions over in-memory values.     *)
(* The state holds the values the functions are called with (the set of    *)
(* available columns, the fitted edge results, the module-level catalog    *)
(* and candidate list), the name of the last function called and what it   *)
(* returned.  Every call is one action.  The callers memoise on the        *)
(* inputs: a function is called while no result is held, or called again   *)
(* with the arguments of the call before it (a repeated render); a result  *)
(* is dropped before the inputs change.                                    *)
(*                                                                         *)
(* JS arrays are sequences, JS Sets are sets, JS strings are TLA+ strings; *)
(* the strings that go through toLowerCase / replace / includes are looked *)
(* up in CharsOf and handled as sequences of characters.                   *)
(*                                                                         *)
(* The weekly wizard (WeeklyWizard.tsx, ArrangeStep.tsx, ReviewStep.tsx,   *)
(* constraintEngine.ts) is modelled beside it.  SpecWizard is the React    *)
(* component: its three pieces of state, the values every render derives   *)
(* from the arrangement, and one action per handler, enabled as the        *)
(* buttons of the step on show are.  SpecEvaluate calls evaluateConstraints *)
(* as a function on weeks the wizard itself need not produce.  A week is a *)
(* function of the day indices 0..6; numbers with decimals are integers in *)
(* the unit named where they are defined.                                  *)
(***************************************************************************)
EXTENDS Integers, Sequences, FiniteSets, TLC

VARIABLES
  availableColumns,   \* the Set<string> handed to the engine
  edgeResults,        \* EdgeResult[] handed to the engine
  mechanismCatalog,   \* the module-level array MECHANISM_CATALOG
  candidateSources,   \* the module-level array CANDIDATE_DATA_SOURCES
  call,               \* name of the last engine function called, or "none"
  candidate,          \* argument of the last computeMarginalValue call
  score,              \* MarginalValueScore returned by computeMarginalValue
  testability,        \* {testable, untestable} of getCurrentlyTestableEdges
  ranked,             \* array returned by rankCandidates
  summaryStats,       \* object returned by computeSummaryStats
  step,               \* WeeklyWizard: useState<WizardStep>
  arrangement,        \* WeeklyWizard: useState<(string | null)[]>
  locked,             \* WeeklyWizard: useState(false)
  assignments,        \* WeeklyWizard: buildAssignments(arrangement) of the render
  unassigned,         \* WeeklyWizard: getUnassignedActivities(assignments)
  allPlaced,          \* WeeklyWizard: isFullyAssigned(assignments)
  constraints,        \* WeeklyWizard: evaluateConstraints(assignments)
  metrics,            \* WeeklyWizard: computePredictedMetrics(assignments)
  edits,              \* drops and removals since the arrangement was last set whole
  lastOp,             \* the last wizard operation, with the day and dragged text
  week,               \* DayAssignment[] handed to evaluateConstraints directly
  evaluated,          \* evaluateConstraints has been called on week
  weekChecks          \* ConstraintCheck[] it returned

engineVars == <<availableColumns, edgeResults, mechanismCatalog, candidateSources,
                call, candidate, score, testability, ranked, summaryStats>>

wizardVars == <<step, arrangement, locked, assignments, unassigned, allPlaced,
                constraints, metrics, edits, lastOp>>

evaluateVars == <<week, evaluated, weekChecks>>

vars == <<engineVars, wizardVars, evaluateVars>>

(* ------------------------------ bounds -------------------------------- *)

\* at most this many devices are left out of the available column set
MaxMissingDevices == 2

\* at most this many fitted edges in edgeResults
MaxEdges == 9

\* at most this many drops and removals after the arrangement was last set whole
MaxEdits == 2

\* at most this many slots of the week handed to evaluateConstraints differ
\* from DEFAULT_ARRANGEMENT
MaxChanged == 2

(* --------------------------- generic helpers -------------------------- *)

Range(s) == {s[i] : i \in 1..Len(s)}

Min(a, b) == IF a < b THEN a ELSE b

\* the element of a one-element set; {e(v) : v \in {x}} evaluates x once
TheOne(S) == CHOOSE x \in S : TRUE

\* Array.prototype.includes on an array of strings
ArrayIncludes(arr, x) == \E i \in 1..Len(arr) : arr[i] = x

(* ---------------------- catalog (mechanismCatalog.ts) ------------------ *)

(* DOSE_FAMILIES: family id -> definition (id and column list), in source order. *)
DOSE_FAMILIES ==
  [
    running_volume |-> [id |-> "running_volume", columns |-> <<"daily_run_km", "run_distance_km", "distance_walking_running_km">>],
    training_duration |-> [id |-> "training_duration", columns |-> <<"daily_duration_min", "workout_duration_min", "ah_workout_duration_min", "exercise_time_min">>],
    zone2_volume |-> [id |-> "zone2_volume", columns |-> <<"daily_zone2_min", "zone2_minutes">>],
    total_distance |-> [id |-> "total_distance", columns |-> <<"daily_distance_km", "distance_walking_running_km">>],
    active_energy |-> [id |-> "active_energy", columns |-> <<"active_energy_kcal", "ah_workout_energy_kcal">>],
    daily_steps |-> [id |-> "daily_steps", columns |-> <<"steps">>],
    training_load |-> [id |-> "training_load", columns |-> <<"daily_trimp">>],
    workout_end_time |-> [id |-> "workout_end_time", columns |-> <<"last_workout_end_hour", "latest_workout_hour">>],
    bedtime |-> [id |-> "bedtime", columns |-> <<"bedtime_hour">>],
    acwr |-> [id |-> "acwr", columns |-> <<"acwr">>],
    training_consistency |-> [id |-> "training_consistency", columns |-> <<"training_consistency", "training_consistency_90d">>],
    sleep_debt |-> [id |-> "sleep_debt", columns |-> <<"sleep_debt_14d">>],
    sleep_duration |-> [id |-> "sleep_duration", columns |-> <<"sleep_duration_hrs">>],
    travel_load |-> [id |-> "travel_load", columns |-> <<"travel_load">>],
    dietary_protein |-> [id |-> "dietary_protein", columns |-> <<"dietary_protein_g">>],
    dietary_energy |-> [id |-> "dietary_energy", columns |-> <<"dietary_energy_kcal">>],
    iron_sat_level |-> [id |-> "iron_sat_level", columns |-> <<"iron_saturation_pct_smoothed", "iron_saturation_pct_computed_smoothed">>],
    vitamin_d_level |-> [id |-> "vitamin_d_level", columns |-> <<"vitamin_d_smoothed", "vitamin_d_raw">>],
    omega3_level |-> [id |-> "omega3_level", columns |-> <<"omega3_index_derived", "omega3_index_smoothed">>],
    b12_level |-> [id |-> "b12_level", columns |-> <<"b12_smoothed", "b12_raw">>],
    homocysteine_level |-> [id |-> "homocysteine_level", columns |-> <<"homocysteine_smoothed", "homocysteine_raw">>],
    ferritin_level |-> [id |-> "ferritin_level", columns |-> <<"ferritin_smoothed", "ferritin_raw">>]
  ]

(* RESPONSE_FAMILIES: family id -> definition (id and column list), in source order. *)
RESPONSE_FAMILIES ==
  [
    iron_total |-> [id |-> "iron_total", columns |-> <<"iron_total_smoothed", "iron_total_raw">>],
    ferritin |-> [id |-> "ferritin", columns |-> <<"ferritin_smoothed", "ferritin_raw">>],
    hemoglobin |-> [id |-> "hemoglobin", columns |-> <<"hemoglobin_smoothed", "hemoglobin_raw">>],
    testosterone |-> [id |-> "testosterone", columns |-> <<"testosterone_smoothed", "testosterone_raw">>],
    cortisol |-> [id |-> "cortisol", columns |-> <<"cortisol_smoothed", "cortisol_raw">>],
    triglycerides |-> [id |-> "triglycerides", columns |-> <<"triglycerides_smoothed", "triglycerides_raw">>],
    hdl |-> [id |-> "hdl", columns |-> <<"hdl_smoothed", "hdl_raw">>],
    ldl |-> [id |-> "ldl", columns |-> <<"ldl_smoothed", "ldl_raw">>],
    hscrp |-> [id |-> "hscrp", columns |-> <<"hscrp_smoothed", "hscrp_raw">>],
    vo2peak |-> [id |-> "vo2peak", columns |-> <<"vo2_peak_smoothed", "vo2max_apple">>],
    sleep_efficiency |-> [id |-> "sleep_efficiency", columns |-> <<"sleep_efficiency_pct", "sleep_efficiency_7d">>],
    sleep_quality |-> [id |-> "sleep_quality", columns |-> <<"sleep_quality_score">>],
    deep_sleep |-> [id |-> "deep_sleep", columns |-> <<"deep_sleep_min", "ah_deep_sleep_min">>],
    sleep_duration_outcome |-> [id |-> "sleep_duration_outcome", columns |-> <<"sleep_duration_hrs", "ah_sleep_total_min">>],
    hrv_daily |-> [id |-> "hrv_daily", columns |-> <<"hrv_daily_mean", "sleep_hrv_ms", "hrv_ms">>],
    hrv_baseline |-> [id |-> "hrv_baseline", columns |-> <<"hrv_7d_mean", "sleep_hrv_7d">>],
    resting_hr |-> [id |-> "resting_hr", columns |-> <<"resting_hr", "sleep_hr_bpm">>],
    resting_hr_trend |-> [id |-> "resting_hr_trend", columns |-> <<"resting_hr_7d_mean", "sleep_hr_7d">>],
    body_fat |-> [id |-> "body_fat", columns |-> <<"body_fat_pct">>],
    body_mass |-> [id |-> "body_mass", columns |-> <<"body_mass_kg">>],
    vitamin_d |-> [id |-> "vitamin_d", columns |-> <<"vitamin_d_smoothed", "vitamin_d_raw">>],
    wbc |-> [id |-> "wbc", columns |-> <<"wbc_smoothed", "wbc_raw">>],
    rbc |-> [id |-> "rbc", columns |-> <<"rbc_smoothed", "rbc_raw">>],
    platelets |-> [id |-> "platelets", columns |-> <<"platelets_smoothed", "platelets_raw">>],
    mcv |-> [id |-> "mcv", columns |-> <<"mcv_smoothed", "mcv_raw">>],
    rdw |-> [id |-> "rdw", columns |-> <<"rdw_smoothed", "rdw_raw">>],
    nlr |-> [id |-> "nlr", columns |-> <<"nlr">>],
    apob |-> [id |-> "apob", columns |-> <<"apob_smoothed", "apob_raw">>],
    ldl_particle_number |-> [id |-> "ldl_particle_number", columns |-> <<"ldl_particle_number_smoothed", "ldl_particle_number_raw">>],
    non_hdl_cholesterol |-> [id |-> "non_hdl_cholesterol", columns |-> <<"non_hdl_cholesterol_smoothed", "non_hdl_cholesterol_raw">>],
    total_cholesterol |-> [id |-> "total_cholesterol", columns |-> <<"total_cholesterol_smoothed", "total_cholesterol_raw">>],
    glucose |-> [id |-> "glucose", columns |-> <<"glucose_smoothed", "glucose_raw">>],
    hba1c |-> [id |-> "hba1c", columns |-> <<"hba1c_smoothed", "hba1c_raw">>],
    insulin |-> [id |-> "insulin", columns |-> <<"insulin_smoothed", "insulin_raw">>],
    uric_acid |-> [id |-> "uric_acid", columns |-> <<"uric_acid_smoothed", "uric_acid_raw">>],
    homocysteine |-> [id |-> "homocysteine", columns |-> <<"homocysteine_smoothed", "homocysteine_raw">>],
    b12 |-> [id |-> "b12", columns |-> <<"b12_smoothed", "b12_raw">>],
    folate |-> [id |-> "folate", columns |-> <<"folate_smoothed", "folate_raw">>],
    zinc |-> [id |-> "zinc", columns |-> <<"zinc_smoothed", "zinc_raw">>],
    magnesium |-> [id |-> "magnesium", columns |-> <<"magnesium_rbc_smoothed", "magnesium_rbc_raw">>],
    omega3_index |-> [id |-> "omega3_index", columns |-> <<"omega3_index_derived", "omega3_index_smoothed">>],
    creatinine |-> [id |-> "creatinine", columns |-> <<"creatinine_smoothed", "creatinine_raw">>],
    ast |-> [id |-> "ast", columns |-> <<"ast_smoothed", "ast_raw">>],
    alt |-> [id |-> "alt", columns |-> <<"alt_smoothed", "alt_raw">>],
    albumin |-> [id |-> "albumin", columns |-> <<"albumin_smoothed", "albumin_raw">>],
    dhea_s |-> [id |-> "dhea_s", columns |-> <<"dhea_s_smoothed", "dhea_s_raw">>],
    shbg |-> [id |-> "shbg", columns |-> <<"shbg_smoothed", "shbg_raw">>],
    estradiol |-> [id |-> "estradiol", columns |-> <<"estradiol_smoothed", "estradiol_raw">>],
    free_t_ratio |-> [id |-> "free_t_ratio", columns |-> <<"free_t_ratio">>]
  ]

(* MECHANISM_CATALOG: the 65 mechanism definitions, in source order. *)
MECHANISM_CATALOG ==
  <<
    [id |-> "run_vol_iron", doseFamily |-> "running_volume", responseFamily |-> "iron_total", category |-> "metabolic"],
    [id |-> "run_vol_ferritin", doseFamily |-> "running_volume", responseFamily |-> "ferritin", category |-> "metabolic"],
    [id |-> "run_vol_hemoglobin", doseFamily |-> "running_volume", responseFamily |-> "hemoglobin", category |-> "metabolic"],
    [id |-> "training_hrs_testosterone", doseFamily |-> "training_duration", responseFamily |-> "testosterone", category |-> "metabolic"],
    [id |-> "training_hrs_cortisol", doseFamily |-> "training_duration", responseFamily |-> "cortisol", category |-> "metabolic"],
    [id |-> "zone2_triglycerides", doseFamily |-> "zone2_volume", responseFamily |-> "triglycerides", category |-> "cardio"],
    [id |-> "zone2_hdl", doseFamily |-> "zone2_volume", responseFamily |-> "hdl", category |-> "cardio"],
    [id |-> "zone2_ldl", doseFamily |-> "zone2_volume", responseFamily |-> "ldl", category |-> "cardio"],
    [id |-> "acwr_hscrp", doseFamily |-> "acwr", responseFamily |-> "hscrp", category |-> "recovery"],
    [id |-> "acwr_resting_hr", doseFamily |-> "acwr", responseFamily |-> "resting_hr_trend", category |-> "recovery"],
    [id |-> "consistency_vo2", doseFamily |-> "training_consistency", responseFamily |-> "vo2peak", category |-> "cardio"],
    [id |-> "ferritin_vo2", doseFamily |-> "ferritin_level", responseFamily |-> "vo2peak", category |-> "metabolic"],
    [id |-> "workout_time_sleep_eff", doseFamily |-> "workout_end_time", responseFamily |-> "sleep_efficiency", category |-> "sleep"],
    [id |-> "bedtime_sleep_quality", doseFamily |-> "bedtime", responseFamily |-> "sleep_quality", category |-> "sleep"],
    [id |-> "bedtime_deep_sleep", doseFamily |-> "bedtime", responseFamily |-> "deep_sleep", category |-> "sleep"],
    [id |-> "sleep_dur_hrv", doseFamily |-> "sleep_duration", responseFamily |-> "hrv_daily", category |-> "recovery"],
    [id |-> "sleep_debt_resting_hr", doseFamily |-> "sleep_debt", responseFamily |-> "resting_hr", category |-> "recovery"],
    [id |-> "trimp_hrv", doseFamily |-> "training_load", responseFamily |-> "hrv_daily", category |-> "recovery"],
    [id |-> "trimp_resting_hr", doseFamily |-> "training_load", responseFamily |-> "resting_hr", category |-> "recovery"],
    [id |-> "steps_sleep_eff", doseFamily |-> "daily_steps", responseFamily |-> "sleep_efficiency", category |-> "sleep"],
    [id |-> "energy_deep_sleep", doseFamily |-> "active_energy", responseFamily |-> "deep_sleep", category |-> "sleep"],
    [id |-> "weekly_km_hrv", doseFamily |-> "running_volume", responseFamily |-> "hrv_baseline", category |-> "recovery"],
    [id |-> "travel_sleep_eff", doseFamily |-> "travel_load", responseFamily |-> "sleep_efficiency", category |-> "sleep"],
    [id |-> "travel_hrv", doseFamily |-> "travel_load", responseFamily |-> "hrv_daily", category |-> "recovery"],
    [id |-> "travel_rhr", doseFamily |-> "travel_load", responseFamily |-> "resting_hr", category |-> "recovery"],
    [id |-> "training_vol_body_fat", doseFamily |-> "training_duration", responseFamily |-> "body_fat", category |-> "metabolic"],
    [id |-> "steps_body_mass", doseFamily |-> "daily_steps", responseFamily |-> "body_mass", category |-> "metabolic"],
    [id |-> "run_vol_rbc", doseFamily |-> "running_volume", responseFamily |-> "rbc", category |-> "metabolic"],
    [id |-> "run_vol_mcv", doseFamily |-> "running_volume", responseFamily |-> "mcv", category |-> "metabolic"],
    [id |-> "run_vol_rdw", doseFamily |-> "running_volume", responseFamily |-> "rdw", category |-> "metabolic"],
    [id |-> "training_hrs_ast", doseFamily |-> "training_duration", responseFamily |-> "ast", category |-> "metabolic"],
    [id |-> "training_hrs_alt", doseFamily |-> "training_duration", responseFamily |-> "alt", category |-> "metabolic"],
    [id |-> "zone2_apob", doseFamily |-> "zone2_volume", responseFamily |-> "apob", category |-> "cardio"],
    [id |-> "zone2_non_hdl", doseFamily |-> "zone2_volume", responseFamily |-> "non_hdl_cholesterol", category |-> "cardio"],
    [id |-> "zone2_total_chol", doseFamily |-> "zone2_volume", responseFamily |-> "total_cholesterol", category |-> "cardio"],
    [id |-> "training_hrs_glucose", doseFamily |-> "training_duration", responseFamily |-> "glucose", category |-> "metabolic"],
    [id |-> "training_hrs_hba1c", doseFamily |-> "training_duration", responseFamily |-> "hba1c", category |-> "metabolic"],
    [id |-> "training_hrs_insulin", doseFamily |-> "training_duration", responseFamily |-> "insulin", category |-> "metabolic"],
    [id |-> "training_hrs_uric_acid", doseFamily |-> "training_duration", responseFamily |-> "uric_acid", category |-> "metabolic"],
    [id |-> "acwr_wbc", doseFamily |-> "acwr", responseFamily |-> "wbc", category |-> "recovery"],
    [id |-> "acwr_nlr", doseFamily |-> "acwr", responseFamily |-> "nlr", category |-> "recovery"],
    [id |-> "run_vol_zinc", doseFamily |-> "running_volume", responseFamily |-> "zinc", category |-> "metabolic"],
    [id |-> "run_vol_magnesium", doseFamily |-> "running_volume", responseFamily |-> "magnesium", category |-> "metabolic"],
    [id |-> "training_hrs_dhea", doseFamily |-> "training_duration", responseFamily |-> "dhea_s", category |-> "metabolic"],
    [id |-> "training_hrs_shbg", doseFamily |-> "training_duration", responseFamily |-> "shbg", category |-> "metabolic"],
    [id |-> "training_hrs_homocysteine", doseFamily |-> "training_duration", responseFamily |-> "homocysteine", category |-> "metabolic"],
    [id |-> "training_hrs_creatinine", doseFamily |-> "training_duration", responseFamily |-> "creatinine", category |-> "metabolic"],
    [id |-> "training_hrs_estradiol", doseFamily |-> "training_duration", responseFamily |-> "estradiol", category |-> "metabolic"],
    [id |-> "training_hrs_platelets", doseFamily |-> "training_duration", responseFamily |-> "platelets", category |-> "metabolic"],
    [id |-> "training_hrs_albumin", doseFamily |-> "training_duration", responseFamily |-> "albumin", category |-> "metabolic"],
    [id |-> "sleep_dur_cortisol", doseFamily |-> "sleep_duration", responseFamily |-> "cortisol", category |-> "recovery"],
    [id |-> "sleep_dur_testosterone", doseFamily |-> "sleep_duration", responseFamily |-> "testosterone", category |-> "recovery"],
    [id |-> "sleep_dur_glucose", doseFamily |-> "sleep_duration", responseFamily |-> "glucose", category |-> "recovery"],
    [id |-> "sleep_dur_wbc", doseFamily |-> "sleep_duration", responseFamily |-> "wbc", category |-> "recovery"],
    [id |-> "iron_sat_hemoglobin", doseFamily |-> "iron_sat_level", responseFamily |-> "hemoglobin", category |-> "metabolic"],
    [id |-> "vitamin_d_testosterone", doseFamily |-> "vitamin_d_level", responseFamily |-> "testosterone", category |-> "metabolic"],
    [id |-> "omega3_hscrp", doseFamily |-> "omega3_level", responseFamily |-> "hscrp", category |-> "metabolic"],
    [id |-> "ferritin_rbc", doseFamily |-> "ferritin_level", responseFamily |-> "rbc", category |-> "metabolic"],
    [id |-> "ferritin_hemoglobin", doseFamily |-> "ferritin_level", responseFamily |-> "hemoglobin", category |-> "metabolic"],
    [id |-> "b12_homocysteine", doseFamily |-> "b12_level", responseFamily |-> "homocysteine", category |-> "metabolic"],
    [id |-> "homocysteine_hscrp", doseFamily |-> "homocysteine_level", responseFamily |-> "hscrp", category |-> "metabolic"],
    [id |-> "protein_body_fat", doseFamily |-> "dietary_protein", responseFamily |-> "body_fat", category |-> "metabolic"],
    [id |-> "energy_body_mass", doseFamily |-> "dietary_energy", responseFamily |-> "body_mass", category |-> "metabolic"],
    [id |-> "travel_nlr", doseFamily |-> "travel_load", responseFamily |-> "nlr", category |-> "recovery"],
    [id |-> "travel_deep_sleep", doseFamily |-> "travel_load", responseFamily |-> "deep_sleep", category |-> "sleep"]
  >>

(* DEVICE_TO_COLUMNS: device key -> the timeline columns it provides. *)
DEVICE_TO_COLUMNS ==
    ("apple-watch" :> <<"steps", "active_energy_kcal", "resting_hr", "resting_hr_7d_mean", "hrv_daily_mean", "hrv_7d_mean", "vo2max_apple", "body_mass_kg", "body_fat_pct", "distance_walking_running_km", "ah_workout_duration_min", "ah_workout_energy_kcal", "dietary_protein_g", "dietary_energy_kcal">>) @@
    ("autosleep" :> <<"sleep_duration_hrs", "sleep_efficiency_pct", "sleep_quality_score", "deep_sleep_min", "ah_deep_sleep_min", "bedtime_hour", "sleep_hr_bpm", "sleep_hrv_ms", "sleep_hrv_7d", "sleep_hr_7d", "sleep_debt_14d">>) @@
    ("gpx" :> <<"daily_run_km", "run_distance_km", "daily_distance_km", "daily_duration_min", "daily_zone2_min", "zone2_minutes", "daily_trimp", "acwr", "training_consistency", "training_consistency_90d", "monotony", "last_workout_end_hour", "latest_workout_hour", "daily_high_intensity_min">>) @@
    ("bloodwork" :> <<"iron_total_smoothed", "iron_total_raw", "ferritin_smoothed", "ferritin_raw", "hemoglobin_smoothed", "hemoglobin_raw", "testosterone_smoothed", "testosterone_raw", "cortisol_smoothed", "cortisol_raw", "triglycerides_smoothed", "triglycerides_raw", "hdl_smoothed", "hdl_raw", "ldl_smoothed", "ldl_raw", "hscrp_smoothed", "hscrp_raw", "vitamin_d_smoothed", "vitamin_d_raw", "wbc_smoothed", "wbc_raw", "rbc_smoothed", "rbc_raw", "platelets_smoothed", "platelets_raw", "mcv_smoothed", "mcv_raw", "rdw_smoothed", "rdw_raw", "nlr", "apob_smoothed", "apob_raw", "ldl_particle_number_smoothed", "ldl_particle_number_raw", "non_hdl_cholesterol_smoothed", "non_hdl_cholesterol_raw", "total_cholesterol_smoothed", "total_cholesterol_raw", "glucose_smoothed", "glucose_raw", "hba1c_smoothed", "hba1c_raw", "insulin_smoothed", "insulin_raw", "uric_acid_smoothed", "uric_acid_raw", "homocysteine_smoothed", "homocysteine_raw", "b12_smoothed", "b12_raw", "folate_smoothed", "folate_raw", "zinc_smoothed", "zinc_raw", "magnesium_rbc_smoothed", "magnesium_rbc_raw", "omega3_index_derived", "omega3_index_smoothed", "creatinine_smoothed", "creatinine_raw", "ast_smoothed", "ast_raw", "alt_smoothed", "alt_raw", "albumin_smoothed", "albumin_raw", "dhea_s_smoothed", "dhea_s_raw", "shbg_smoothed", "shbg_raw", "estradiol_smoothed", "estradiol_raw", "free_t_ratio", "iron_saturation_pct_smoothed", "iron_saturation_pct_computed_smoothed">>) @@
    ("medix-cpet" :> <<"vo2_peak_smoothed">>) @@
    ("derived" :> <<"travel_load", "season", "location", "is_weekend", "day_of_week", "year", "month">>)

(* LATENT_NODES: unobserved confounders of the causal graph. *)
LATENT_NODES ==
  <<"sweat_iron_loss", "gi_iron_loss", "lipoprotein_lipase",
    "reverse_cholesterol_transport", "core_temperature",
    "energy_expenditure", "leptin", "insulin_sensitivity">>

(* ------------------------------ strings ------------------------------- *)

(* The characters of every string that is lower-cased, stripped or        *)
(* searched by the engine.                                                 *)
CharsOf ==
    ("sweat_iron_loss" :> <<"s", "w", "e", "a", "t", "_", "i", "r", "o", "n", "_", "l", "o", "s", "s">>) @@
    ("gi_iron_loss" :> <<"g", "i", "_", "i", "r", "o", "n", "_", "l", "o", "s", "s">>) @@
    ("lipoprotein_lipase" :> <<"l", "i", "p", "o", "p", "r", "o", "t", "e", "i", "n", "_", "l", "i", "p", "a", "s", "e">>) @@
    ("reverse_cholesterol_transport" :> <<"r", "e", "v", "e", "r", "s", "e", "_", "c", "h", "o", "l", "e", "s", "t", "e", "r", "o", "l", "_", "t", "r", "a", "n", "s", "p", "o", "r", "t">>) @@
    ("core_temperature" :> <<"c", "o", "r", "e", "_", "t", "e", "m", "p", "e", "r", "a", "t", "u", "r", "e">>) @@
    ("energy_expenditure" :> <<"e", "n", "e", "r", "g", "y", "_", "e", "x", "p", "e", "n", "d", "i", "t", "u", "r", "e">>) @@
    ("leptin" :> <<"l", "e", "p", "t", "i", "n">>) @@
    ("insulin_sensitivity" :> <<"i", "n", "s", "u", "l", "i", "n", "_", "s", "e", "n", "s", "i", "t", "i", "v", "i", "t", "y">>) @@
    ("Leptin_ng_ml" :> <<"L", "e", "p", "t", "i", "n", "_", "n", "g", "_", "m", "l">>) @@
    ("temp" :> <<"t", "e", "m", "p">>) @@
    ("_" :> <<"_">>) @@
    ("glucose_raw" :> <<"g", "l", "u", "c", "o", "s", "e", "_", "r", "a", "w">>) @@
    ("dietary_protein_g" :> <<"d", "i", "e", "t", "a", "r", "y", "_", "p", "r", "o", "t", "e", "i", "n", "_", "g">>) @@
    ("daily_run_km" :> <<"d", "a", "i", "l", "y", "_", "r", "u", "n", "_", "k", "m">>) @@
    ("hrv_ms" :> <<"h", "r", "v", "_", "m", "s">>) @@
    ("InsulinSensitivity" :> <<"I", "n", "s", "u", "l", "i", "n", "S", "e", "n", "s", "i", "t", "i", "v", "i", "t", "y">>) @@
    ("insulin_sensitivity_index" :> <<"i", "n", "s", "u", "l", "i", "n", "_", "s", "e", "n", "s", "i", "t", "i", "v", "i", "t", "y", "_", "i", "n", "d", "e", "x">>) @@
    ("glucose_cgm_mean" :> <<"g", "l", "u", "c", "o", "s", "e", "_", "c", "g", "m", "_", "m", "e", "a", "n">>) @@
    ("dietary_energy_kcal" :> <<"d", "i", "e", "t", "a", "r", "y", "_", "e", "n", "e", "r", "g", "y", "_", "k", "c", "a", "l">>) @@
    ("bp_systolic" :> <<"b", "p", "_", "s", "y", "s", "t", "o", "l", "i", "c">>) @@
    ("stress_score" :> <<"s", "t", "r", "e", "s", "s", "_", "s", "c", "o", "r", "e">>) @@
    ("respiratory_rate" :> <<"r", "e", "s", "p", "i", "r", "a", "t", "o", "r", "y", "_", "r", "a", "t", "e">>) @@
    ("wrist_temp_deviation" :> <<"w", "r", "i", "s", "t", "_", "t", "e", "m", "p", "_", "d", "e", "v", "i", "a", "t", "i", "o", "n">>) @@
    ("prs_iron_absorption" :> <<"p", "r", "s", "_", "i", "r", "o", "n", "_", "a", "b", "s", "o", "r", "p", "t", "i", "o", "n">>) @@
    ("prs_ldl_receptor" :> <<"p", "r", "s", "_", "l", "d", "l", "_", "r", "e", "c", "e", "p", "t", "o", "r">>) @@
    ("hrv" :> <<"h", "r", "v">>) @@
    ("glucose" :> <<"g", "l", "u", "c", "o", "s", "e">>) @@
    ("insulin" :> <<"i", "n", "s", "u", "l", "i", "n">>) @@
    ("hba1c" :> <<"h", "b", "a", "1", "c">>) @@
    ("dietary" :> <<"d", "i", "e", "t", "a", "r", "y">>) @@
    ("protein" :> <<"p", "r", "o", "t", "e", "i", "n">>) @@
    ("resting_hr" :> <<"r", "e", "s", "t", "i", "n", "g", "_", "h", "r">>) @@
    ("hr_7d" :> <<"h", "r", "_", "7", "d">>) @@
    ("cardio" :> <<"c", "a", "r", "d", "i", "o">>) @@
    ("cortisol" :> <<"c", "o", "r", "t", "i", "s", "o", "l">>) @@
    ("testosterone" :> <<"t", "e", "s", "t", "o", "s", "t", "e", "r", "o", "n", "e">>) @@
    ("sleep" :> <<"s", "l", "e", "e", "p">>) @@
    ("Running Volume -> Ferritin" :> <<"R", "u", "n", "n", "i", "n", "g", " ", "V", "o", "l", "u", "m", "e", " ", "-", ">", " ", "F", "e", "r", "r", "i", "t", "i", "n">>) @@
    ("ferritin_smoothed" :> <<"f", "e", "r", "r", "i", "t", "i", "n", "_", "s", "m", "o", "o", "t", "h", "e", "d">>) @@
    ("Training Load -> HRV" :> <<"T", "r", "a", "i", "n", "i", "n", "g", " ", "L", "o", "a", "d", " ", "-", ">", " ", "H", "R", "V">>) @@
    ("daily_trimp" :> <<"d", "a", "i", "l", "y", "_", "t", "r", "i", "m", "p">>) @@
    ("hrv_daily_mean" :> <<"h", "r", "v", "_", "d", "a", "i", "l", "y", "_", "m", "e", "a", "n">>) @@
    ("Sleep Duration -> Glucose" :> <<"S", "l", "e", "e", "p", " ", "D", "u", "r", "a", "t", "i", "o", "n", " ", "-", ">", " ", "G", "l", "u", "c", "o", "s", "e">>) @@
    ("sleep_duration_hrs" :> <<"s", "l", "e", "e", "p", "_", "d", "u", "r", "a", "t", "i", "o", "n", "_", "h", "r", "s">>) @@
    ("glucose_smoothed" :> <<"g", "l", "u", "c", "o", "s", "e", "_", "s", "m", "o", "o", "t", "h", "e", "d">>) @@
    ("Protein Intake -> Body Fat" :> <<"P", "r", "o", "t", "e", "i", "n", " ", "I", "n", "t", "a", "k", "e", " ", "-", ">", " ", "B", "o", "d", "y", " ", "F", "a", "t">>) @@
    ("body_fat_pct" :> <<"b", "o", "d", "y", "_", "f", "a", "t", "_", "p", "c", "t">>) @@
    ("ACWR -> Cardio Strain" :> <<"A", "C", "W", "R", " ", "-", ">", " ", "C", "a", "r", "d", "i", "o", " ", "S", "t", "r", "a", "i", "n">>) @@
    ("acwr" :> <<"a", "c", "w", "r">>) @@
    ("resting_hr_7d_mean" :> <<"r", "e", "s", "t", "i", "n", "g", "_", "h", "r", "_", "7", "d", "_", "m", "e", "a", "n">>) @@
    ("Training Hours -> Cortisol" :> <<"T", "r", "a", "i", "n", "i", "n", "g", " ", "H", "o", "u", "r", "s", " ", "-", ">", " ", "C", "o", "r", "t", "i", "s", "o", "l">>) @@
    ("daily_duration_min" :> <<"d", "a", "i", "l", "y", "_", "d", "u", "r", "a", "t", "i", "o", "n", "_", "m", "i", "n">>) @@
    ("cortisol_smoothed" :> <<"c", "o", "r", "t", "i", "s", "o", "l", "_", "s", "m", "o", "o", "t", "h", "e", "d">>) @@
    ("Bedtime -> Sleep Quality" :> <<"B", "e", "d", "t", "i", "m", "e", " ", "-", ">", " ", "S", "l", "e", "e", "p", " ", "Q", "u", "a", "l", "i", "t", "y">>) @@
    ("bedtime_hour" :> <<"b", "e", "d", "t", "i", "m", "e", "_", "h", "o", "u", "r">>) @@
    ("sleep_quality_score" :> <<"s", "l", "e", "e", "p", "_", "q", "u", "a", "l", "i", "t", "y", "_", "s", "c", "o", "r", "e">>) @@
    ("HRV Baseline -> Testosterone" :> <<"H", "R", "V", " ", "B", "a", "s", "e", "l", "i", "n", "e", " ", "-", ">", " ", "T", "e", "s", "t", "o", "s", "t", "e", "r", "o", "n", "e">>) @@
    ("hrv_7d_mean" :> <<"h", "r", "v", "_", "7", "d", "_", "m", "e", "a", "n">>) @@
    ("testosterone_smoothed" :> <<"t", "e", "s", "t", "o", "s", "t", "e", "r", "o", "n", "e", "_", "s", "m", "o", "o", "t", "h", "e", "d">>) @@
    ("Zone 2 -> Insulin" :> <<"Z", "o", "n", "e", " ", "2", " ", "-", ">", " ", "I", "n", "s", "u", "l", "i", "n">>) @@
    ("daily_zone2_min" :> <<"d", "a", "i", "l", "y", "_", "z", "o", "n", "e", "2", "_", "m", "i", "n">>) @@
    ("insulin_smoothed" :> <<"i", "n", "s", "u", "l", "i", "n", "_", "s", "m", "o", "o", "t", "h", "e", "d">>)

LowerOfUpper ==
("A" :> "a") @@ ("B" :> "b") @@ ("C" :> "c") @@ ("D" :> "d") @@ ("E" :> "e") @@ ("F" :> "f") @@ ("G" :> "g") @@ ("H" :> "h") @@ ("I" :> "i") @@ ("J" :> "j") @@ ("K" :> "k") @@ ("L" :> "l") @@ ("M" :> "m") @@ ("N" :> "n") @@ ("O" :> "o") @@ ("P" :> "p") @@ ("Q" :> "q") @@ ("R" :> "r") @@ ("S" :> "s") @@ ("T" :> "t") @@ ("U" :> "u") @@ ("V" :> "v") @@ ("W" :> "w") @@ ("X" :> "x") @@ ("Y" :> "y") @@ ("Z" :> "z")


\* String.prototype.toLowerCase
toLowerCase(cs) ==
  [i \in 1..Len(cs) |->
     IF cs[i] \in DOMAIN LowerOfUpper THEN LowerOfUpper[cs[i]] ELSE cs[i]]

\* String.prototype.replace(/_/g, '')
removeUnderscores(cs) == SelectSeq(cs, LAMBDA ch : ch # "_")

\* String.prototype.includes
includes(haystack, needle) ==
  \E i \in 0..(Len(haystack) - Len(needle)) :
     SubSeq(haystack, i + 1, i + Len(needle)) = needle

(* ----------------- inputs: candidates and edge results ----------------- *)

(* A CandidateDataSource, reduced to the fields the engine reads. *)
Candidate(id, cols, doseFams, respFams) ==
  [id |-> id, newColumns |-> cols,
   newDoseFamilies |-> doseFams, newResponseFamilies |-> respFams]

(* The candidate list of candidateDataSources.ts: one candidate per id the *)
(* engine has a rule for.                                                  *)
CANDIDATE_DATA_SOURCES ==
  <<Candidate("monthly_labs", <<>>, <<>>, <<>>),
    Candidate("dedicated_hrv", <<"hrv_ms">>, <<>>, <<"hrv_daily">>),
    Candidate("cgm", <<"glucose_cgm_mean">>, <<>>, <<"glucose">>),
    Candidate("nutrition", <<"dietary_protein_g", "dietary_energy_kcal">>,
              <<"dietary_protein", "dietary_energy">>, <<>>),
    Candidate("blood_pressure", <<"bp_systolic">>, <<>>, <<>>),
    Candidate("mood_stress", <<"stress_score">>, <<>>, <<>>),
    Candidate("respiratory_rate", <<"respiratory_rate">>, <<>>, <<>>),
    Candidate("body_temperature", <<"wrist_temp_deviation">>, <<>>, <<>>),
    Candidate("genetic_data", <<"prs_iron_absorption", "prs_ldl_receptor">>,
              <<>>, <<>>)>>

\* candidate ids given to computeMarginalValue: the ids with a rule and one without
CandidateIds ==
  {"monthly_labs", "dedicated_hrv", "cgm", "nutrition", "blood_pressure",
   "mood_stress", "respiratory_rate", "body_temperature", "genetic_data",
   "sleep_lab"}

\* newColumns / newDoseFamilies / newResponseFamilies given to computeMarginalValue
CandidateShapes ==
  {<< <<>>, <<>>, <<>> >>,
   << <<"glucose_raw", "Leptin_ng_ml">>, <<>>, <<"glucose", "insulin", "hba1c">> >>,
   << <<"dietary_protein_g", "daily_run_km">>, <<"dietary_protein", "no_such_family">>, <<>> >>,
   << <<"core_temperature", "temp">>, <<>>, <<"no_such_family">> >>,
   << <<"_", "hrv_ms">>, <<>>, <<"hrv_daily", "resting_hr">> >>,
   << <<"InsulinSensitivity", "insulin_sensitivity_index", "energy_expenditure">>,
      <<"running_volume">>, <<"ferritin">> >>}

CandidateInputs ==
  {Candidate(id, sh[1], sh[2], sh[3]) : id \in CandidateIds, sh \in CandidateShapes}

(* An EdgeResult, reduced to the fields the engine reads. *)
Edge(title, source, target, eff_n, personal_pct) ==
  [title |-> title, source |-> source, target |-> target,
   eff_n |-> eff_n, personal_pct |-> personal_pct]

\* fitted edges the edge results are taken from
EdgeKinds ==
  <<Edge("Running Volume -> Ferritin", "daily_run_km", "ferritin_smoothed", 12, 35),
    Edge("Training Load -> HRV", "daily_trimp", "hrv_daily_mean", 45, 60),
    Edge("Sleep Duration -> Glucose", "sleep_duration_hrs", "glucose_smoothed", 8, 20),
    Edge("Protein Intake -> Body Fat", "dietary_protein_g", "body_fat_pct", 19, 42),
    Edge("ACWR -> Cardio Strain", "acwr", "resting_hr_7d_mean", 6, 15),
    Edge("Training Hours -> Cortisol", "daily_duration_min", "cortisol_smoothed", 20, 50),
    Edge("Bedtime -> Sleep Quality", "bedtime_hour", "sleep_quality_score", 15, 71),
    Edge("HRV Baseline -> Testosterone", "hrv_7d_mean", "testosterone_smoothed", 10, 28),
    Edge("Zone 2 -> Insulin", "daily_zone2_min", "insulin_smoothed", 5, 33)>>

\* the first n fitted edges, cycling through EdgeKinds
EdgePrefix(n) == [i \in 1..n |-> EdgeKinds[((i - 1) % Len(EdgeKinds)) + 1]]

(* ------------------- engine (marginalValueEngine.ts) ------------------- *)

\* the columns of a set of devices
ColumnsOfDevices(devs) == UNION {Range(DEVICE_TO_COLUMNS[d]) : d \in devs}

getAvailableColumns == ColumnsOfDevices(DOMAIN DEVICE_TO_COLUMNS)

\* mutant: every column of the family is required
hasDoseData_every(doseFamilyId, cols) ==
  IF doseFamilyId \notin DOMAIN DOSE_FAMILIES THEN FALSE
  ELSE LET fam == DOSE_FAMILIES[doseFamilyId]
       IN  \A i \in 1..Len(fam.columns) : fam.columns[i] \in cols

hasDoseData(doseFamilyId, cols) ==
  IF doseFamilyId \notin DOMAIN DOSE_FAMILIES THEN FALSE
  ELSE LET fam == DOSE_FAMILIES[doseFamilyId]
       IN  \E i \in 1..Len(fam.columns) : fam.columns[i] \in cols

hasResponseData(responseFamilyId, cols) ==
  IF responseFamilyId \notin DOMAIN RESPONSE_FAMILIES THEN FALSE
  ELSE LET fam == RESPONSE_FAMILIES[responseFamilyId]
       IN  \E i \in 1..Len(fam.columns) : fam.columns[i] \in cols

\* lines 60-70: the MechanismTestability entry of one mechanism
TestabilityEntry(mech, cols) ==
  LET doseOk == hasDoseData(mech.doseFamily, cols)
      responseOk == hasResponseData(mech.responseFamily, cols)
  IN  [mechanism |-> mech,
       testable |-> doseOk /\ responseOk,
       hasDoseData |-> doseOk,
       hasResponseData |-> responseOk,
       missingDoseFamilies |-> IF doseOk THEN <<>> ELSE <<mech.doseFamily>>,
       missingResponseFamilies |->
         IF responseOk THEN <<>> ELSE <<mech.responseFamily>>]

\* mutant: the else branch is lost, every entry is also pushed to untestable
getCurrentlyTestableEdges_noElse(cols) ==
  TheOne({[testable |-> SelectSeq(entries, LAMBDA e : e.testable),
           untestable |-> entries] :
          entries \in {[i \in 1..Len(mechanismCatalog) |->
                          TestabilityEntry(mechanismCatalog[i], cols)]}})

getCurrentlyTestableEdges(cols) ==
  TheOne({[testable |-> SelectSeq(entries, LAMBDA e : e.testable),
           untestable |-> SelectSeq(entries, LAMBDA e : ~e.testable)] :
          entries \in {[i \in 1..Len(mechanismCatalog) |->
                          TestabilityEntry(mechanismCatalog[i], cols)]}})

\* mutant: the additions go to the caller's set (no copy is made)
AugmentColumns_aliased(cand, cols) ==
  LET doseCols == UNION {Range(DOSE_FAMILIES[f].columns) :
                           f \in Range(cand.newDoseFamilies) \cap DOMAIN DOSE_FAMILIES}
      respCols == UNION {Range(RESPONSE_FAMILIES[f].columns) :
                           f \in Range(cand.newResponseFamilies) \cap DOMAIN RESPONSE_FAMILIES}
  IN  [augmentedColumns |-> cols \cup Range(cand.newColumns) \cup doseCols \cup respCols,
       availableColumns |-> cols \cup Range(cand.newColumns) \cup doseCols \cup respCols]

(* Lines 90-103: the augmented column set, and the caller's set after the  *)
(* additions (they go to a copy, so it is the set that was passed).        *)
AugmentColumns(cand, cols) ==
  LET doseCols == UNION {Range(DOSE_FAMILIES[f].columns) :
                           f \in Range(cand.newDoseFamilies) \cap DOMAIN DOSE_FAMILIES}
      respCols == UNION {Range(RESPONSE_FAMILIES[f].columns) :
                           f \in Range(cand.newResponseFamilies) \cap DOMAIN RESPONSE_FAMILIES}
  IN  [augmentedColumns |-> cols \cup Range(cand.newColumns) \cup doseCols \cup respCols,
       availableColumns |-> cols]

\* mutant: the mechanisms already testable are not filtered out
NewlyUnlocked_all(cols, augmentedColumns) ==
  SelectSeq(mechanismCatalog,
            LAMBDA m : /\ hasDoseData(m.doseFamily, augmentedColumns)
                       /\ hasResponseData(m.responseFamily, augmentedColumns))

(* Lines 105-114: the mechanisms testable with the augmented columns and   *)
(* not with the available ones, in catalog order.                          *)
NewlyUnlocked(cols, augmentedColumns) ==
  LET currentTestable ==
        {mechanismCatalog[i].id : i \in
           {j \in 1..Len(mechanismCatalog) :
              /\ hasDoseData(mechanismCatalog[j].doseFamily, cols)
              /\ hasResponseData(mechanismCatalog[j].responseFamily, cols)}}
      augmentedTestable ==
        SelectSeq(mechanismCatalog,
                  LAMBDA m : /\ hasDoseData(m.doseFamily, augmentedColumns)
                             /\ hasResponseData(m.responseFamily, augmentedColumns))
  IN  SelectSeq(augmentedTestable, LAMBDA m : m.id \notin currentTestable)

\* mutant: only the first test (the column contains the latent name)
Resolves_oneWay(cand, latent) ==
  \E i \in 1..Len(cand.newColumns) :
     LET colLower == toLowerCase(CharsOf[cand.newColumns[i]])
         latentLower == removeUnderscores(toLowerCase(CharsOf[latent]))
     IN  includes(colLower, latentLower)

(* Lines 122-126: some new column is a proxy for the latent node. *)
Resolves(cand, latent) ==
  \E i \in 1..Len(cand.newColumns) :
     LET colLower == toLowerCase(CharsOf[cand.newColumns[i]])
         latentLower == removeUnderscores(toLowerCase(CharsOf[latent]))
     IN  \/ includes(colLower, latentLower)
         \/ includes(latentLower, removeUnderscores(colLower))

\* mutant: the push is not guarded
PushIfAbsent_always(arr, x) == Append(arr, x)

\* if (!arr.includes(x)) arr.push(x)
PushIfAbsent(arr, x) == IF ArrayIncludes(arr, x) THEN arr ELSE Append(arr, x)

(* Lines 118-153: the resolved latent nodes. *)
ResolvedLatentNodes(cand) ==
  LET heuristic == SelectSeq(LATENT_NODES, LAMBDA latent : Resolves(cand, latent))
      r1 == IF cand.id = "body_temperature"
            THEN PushIfAbsent(heuristic, "core_temperature") ELSE heuristic
      r2 == IF cand.id = "mood_stress"
            THEN PushIfAbsent(r1, "energy_expenditure") ELSE r1
      r3 == IF cand.id = "genetic_data"
            THEN PushIfAbsent(PushIfAbsent(r2, "insulin_sensitivity"),
                              "lipoprotein_lipase")
            ELSE r2
  IN  r3

\* s.includes(needle) for a string of the table
Has(s, needle) == includes(CharsOf[s], CharsOf[needle])

\* mutant: the title is matched in the case it is written in
LowerHas_caseSensitive(s, needle) == includes(CharsOf[s], CharsOf[needle])

\* s.toLowerCase().includes(needle)
LowerHas(s, needle) == includes(toLowerCase(CharsOf[s]), CharsOf[needle])

(* Lines 158-231: the titles of the boosted edges. *)
BoostedEdgeTitles(cand, edges) ==
  LET Block(id, Matches(_)) ==
        IF cand.id = id
        THEN LET hit == SelectSeq(edges, Matches)
             IN  [i \in 1..Len(hit) |-> hit[i].title]
        ELSE <<>>
  IN  Block("monthly_labs", LAMBDA e : e.eff_n < 20)
      \o Block("dedicated_hrv",
               LAMBDA e : Has(e.target, "hrv") \/ Has(e.source, "hrv"))
      \o Block("cgm",
               LAMBDA e : \/ Has(e.target, "glucose") \/ Has(e.source, "glucose")
                          \/ Has(e.target, "insulin") \/ Has(e.target, "hba1c"))
      \o Block("nutrition",
               LAMBDA e : Has(e.source, "dietary") \/ Has(e.source, "protein"))
      \o Block("blood_pressure",
               LAMBDA e : \/ Has(e.target, "resting_hr") \/ Has(e.target, "hr_7d")
                          \/ LowerHas(e.title, "cardio"))
      \o Block("mood_stress",
               LAMBDA e : \/ Has(e.target, "cortisol") \/ Has(e.target, "testosterone")
                          \/ LowerHas(e.title, "sleep"))
      \o Block("respiratory_rate",
               LAMBDA e : Has(e.target, "hrv") \/ Has(e.target, "sleep"))
      \o Block("body_temperature",
               LAMBDA e : Has(e.target, "sleep") \/ LowerHas(e.title, "sleep"))

\* mutant: the cap is left out
NewEdgePoints_uncapped(newEdgesUnlocked) == newEdgesUnlocked * 15

\* Math.min(40, newEdgesUnlocked * 15)
NewEdgePoints(newEdgesUnlocked) == Min(40, newEdgesUnlocked * 15)

\* Math.min(30, confoundersResolved * 15)
ConfounderPoints(confoundersResolved) == Min(30, confoundersResolved * 15)

\* Math.min(30, signalBoostEdges * 5)
SignalBoostPoints(signalBoostEdges) == Min(30, signalBoostEdges * 5)

\* mutant: the signal-boost points are left out of the sum
Composite_noBoost(newEdgePoints, confounderPoints, signalBoostPoints) ==
  Min(100, newEdgePoints + confounderPoints)

\* Math.min(100, newEdgePoints + confounderPoints + signalBoostPoints)
Composite(newEdgePoints, confounderPoints, signalBoostPoints) ==
  Min(100, newEdgePoints + confounderPoints + signalBoostPoints)

\* mutant: strict comparisons
TierOf_strict(composite) ==
  IF composite > 70 THEN "transformative"
  ELSE IF composite > 45 THEN "high"
  ELSE IF composite > 20 THEN "moderate"
  ELSE "low"

TierOf(composite) ==
  IF composite >= 70 THEN "transformative"
  ELSE IF composite >= 45 THEN "high"
  ELSE IF composite >= 20 THEN "moderate"
  ELSE "low"

\* lines 245-258: the MarginalValueScore object
ScoreOf(cand, newlyUnlocked, resolvedLatentNodes, boostedEdgeTitles) ==
  LET newEdgesUnlocked == Len(newlyUnlocked)
      newEdgePoints == NewEdgePoints(newEdgesUnlocked)
      confoundersResolved == Len(resolvedLatentNodes)
      confounderPoints == ConfounderPoints(confoundersResolved)
      signalBoostEdges == Len(boostedEdgeTitles)
      signalBoostPoints == SignalBoostPoints(signalBoostEdges)
      composite == Composite(newEdgePoints, confounderPoints, signalBoostPoints)
  IN  [candidateId |-> cand.id,
       composite |-> composite,
       newEdgesUnlocked |-> newEdgesUnlocked,
       newEdgePoints |-> newEdgePoints,
       confoundersResolved |-> confoundersResolved,
       confounderPoints |-> confounderPoints,
       signalBoostEdges |-> signalBoostEdges,
       signalBoostPoints |-> signalBoostPoints,
       tier |-> TierOf(composite),
       unlockedMechanisms |-> newlyUnlocked,
       resolvedLatentNodes |-> resolvedLatentNodes,
       boostedEdgeTitles |-> boostedEdgeTitles]

(* computeMarginalValue: the score, and the caller's column set after the call. *)
computeMarginalValue(cand, cols, edges) ==
  TheOne({
    [score |->
       TheOne({ScoreOf(cand, newlyUnlocked, resolvedLatentNodes, boostedEdgeTitles) :
                 newlyUnlocked \in {NewlyUnlocked(aug.availableColumns, aug.augmentedColumns)},
                 resolvedLatentNodes \in {ResolvedLatentNodes(cand)},
                 boostedEdgeTitles \in {BoostedEdgeTitles(cand, edges)}}),
     availableColumns |-> aug.availableColumns] :
    aug \in {AugmentColumns(cand, cols)}})

\* results.map((candidate) => ({candidate, score: computeMarginalValue(...)})):
\* the calls for candidates i.. in list order, each on the column set the call
\* before it left
RECURSIVE MapScores(_, _, _, _)
MapScores(i, cols, edges, done) ==
  IF i > Len(candidateSources) THEN [results |-> done, availableColumns |-> cols]
  ELSE TheOne({
         MapScores(i + 1, r.availableColumns, edges,
                   Append(done, [candidate |-> candidateSources[i], score |-> r.score])) :
         r \in {computeMarginalValue(candidateSources[i], cols, edges)}})

\* mutant: the comparator sorts ascending
CompareDesc_ascending(a, b) == a.score.composite - b.score.composite

\* the comparator (a, b) => b.score.composite - a.score.composite
CompareDesc(a, b) == b.score.composite - a.score.composite

\* Array.prototype.sort with the comparator (stable): entry i comes after the
\* entries the comparator puts before it and the equal ones that precede it
SortResults(results) ==
  LET n == Len(results)
      before(i) ==
        Cardinality({j \in 1..n :
                       \/ CompareDesc(results[j], results[i]) < 0
                       \/ CompareDesc(results[j], results[i]) = 0 /\ j < i})
  IN  [k \in 1..n |-> results[CHOOSE i \in 1..n : before(i) = k - 1]]

(* rankCandidates: the sorted results, and the candidate list and the      *)
(* caller's column set after the call (the sort is on the mapped array).   *)
rankCandidates(cols, edges) ==
  TheOne({[results |-> SortResults(mapped.results),
           candidateSources |-> candidateSources,
           availableColumns |-> mapped.availableColumns] :
          mapped \in {MapScores(1, cols, edges, <<>>)}})

\* Math.round(num / den) for non-negative integers, den > 0
RoundDiv(num, den) == (2 * num + den) \div (2 * den)

RECURSIVE SumPersonalPct(_)
SumPersonalPct(edges) ==
  IF edges = <<>> THEN 0 ELSE Head(edges).personal_pct + SumPersonalPct(Tail(edges))

computeSummaryStats(edges) ==
  TheOne({[totalMechanisms |-> Len(mechanismCatalog),
           testableCount |-> Len(t.testable),
           untestableCount |-> Len(t.untestable),
           testedPct |-> RoundDiv(Len(t.testable) * 100, Len(mechanismCatalog)),
           avgPersonalWeight |->
             IF Len(edges) > 0 THEN RoundDiv(SumPersonalPct(edges), Len(edges)) ELSE 0,
           latentNodeCount |-> Len(LATENT_NODES),
           fittedEdgeCount |-> Len(edges)] :
          t \in {getCurrentlyTestableEdges(getAvailableColumns)}})

(* ------------- weekly wizard data (constraintEngine.ts) --------------- *)

\* null, for an arrangement slot without an activity id
Null == "null"

\* the day indices 0..6 (Sun..Sat) of Array(7)
Days == 0..6

\* a MutableActivity, reduced to the fields the wizard reads
Activity(id, dayType, duration, isRunning, estimatedTRIMP) ==
  [id |-> id, dayType |-> dayType, duration |-> duration,
   isRunning |-> isRunning, estimatedTRIMP |-> estimatedTRIMP]

\* activity: null in a DayAssignment
NoActivity == Activity(Null, Null, 0, FALSE, 0)

MUTABLE_ACTIVITIES ==
  <<Activity("z2-run", "easy", 50, TRUE, 40),
    Activity("z2-bike", "moderate", 60, FALSE, 45),
    Activity("rest-1", "rest", 0, FALSE, 0),
    Activity("tempo-run", "hard", 40, TRUE, 75),
    Activity("easy-z2-run", "easy", 35, TRUE, 30),
    Activity("z2-bike-long", "moderate", 75, FALSE, 55),
    Activity("rest-2", "rest", 0, FALSE, 0)>>

\* Sun..Sat
DEFAULT_ARRANGEMENT ==
  [d \in Days |->
     <<"rest-1", "z2-run", "z2-bike", "rest-2", "tempo-run", "easy-z2-run",
       "z2-bike-long">>[d + 1]]

\* Array(7).fill(null)
EmptyArrangement == [d \in Days |-> Null]

\* MUTABLE_ACTIVITIES.find((a) => a.id === activityId) ?? null
FindActivity(activityId) ==
  IF \E k \in 1..Len(MUTABLE_ACTIVITIES) : MUTABLE_ACTIVITIES[k].id = activityId
  THEN MUTABLE_ACTIVITIES[CHOOSE k \in 1..Len(MUTABLE_ACTIVITIES) :
                            /\ MUTABLE_ACTIVITIES[k].id = activityId
                            /\ \A j \in 1..(k - 1) : MUTABLE_ACTIVITIES[j].id # activityId]
  ELSE NoActivity

buildAssignments(arr) ==
  [dayIndex \in DOMAIN arr |->
     [dayIndex |-> dayIndex,
      activity |-> IF arr[dayIndex] # Null THEN FindActivity(arr[dayIndex])
                   ELSE NoActivity]]

\* mutant: the filter on the assigned ids is left out
getUnassignedActivities_all(assigned) == MUTABLE_ACTIVITIES

getUnassignedActivities(assigned) ==
  LET assignedIds == {assigned[d].activity.id : d \in DOMAIN assigned} \ {Null}
  IN  SelectSeq(MUTABLE_ACTIVITIES, LAMBDA a : a.id \notin assignedIds)

isFullyAssigned(assigned) ==
  \A d \in DOMAIN assigned : assigned[d].activity # NoActivity

\* a ConstraintCheck; the id is its rule name with the day indices it carries
Check(rule, days, severity) == [id |-> <<rule>> \o days, severity |-> severity]

\* the indices i of a loop `for (i = from; i <= to; i++)`, in order
LoopIndices(from, to) == [k \in 1..(to - from + 1) |-> from + k - 1]

\* the checks a loop pushes: one for each index that meets the condition
PushedChecks(from, to, Cond(_), Made(_)) ==
  LET hit == SelectSeq(LoopIndices(from, to), Cond)
  IN  [k \in 1..Len(hit) |-> Made(hit[k])]

\* curr && ...: the slot holds an activity
Truthy(activity) == activity # NoActivity

\* rule 1, lines 79-82
BackToBackHard(curr, next) ==
  /\ Truthy(curr) /\ Truthy(next)
  /\ curr.dayType = "hard" /\ next.dayType = "hard"

\* rule 2, line 97
AdjacentRun(curr, next) ==
  Truthy(curr) /\ Truthy(next) /\ curr.isRunning /\ next.isRunning

\* rule 3, line 111
NoRestBeforeHard(curr, prev) ==
  Truthy(curr) /\ curr.dayType = "hard" /\ Truthy(prev) /\ prev.dayType # "rest"

\* mutant: the branch that skips a pair rule 1 has caught is left out
NoRecoveryAfterHard_noSkip(curr, next) ==
  /\ Truthy(curr) /\ curr.dayType = "hard"
  /\ Truthy(next) /\ next.dayType # "rest" /\ next.dayType # "easy"

\* rule 4, lines 125-133
NoRecoveryAfterHard(curr, next) ==
  IF Truthy(curr) /\ curr.dayType = "hard" /\ Truthy(next) /\ next.dayType = "hard"
  THEN FALSE
  ELSE /\ Truthy(curr) /\ curr.dayType = "hard"
       /\ Truthy(next) /\ next.dayType # "rest" /\ next.dayType # "easy"

RECURSIVE ConsecutiveTraining_noBreak(_, _, _, _)
\* mutant: the loop goes on after a streak is flagged
ConsecutiveTraining_noBreak(activities, i, consecutive, streakStart) ==
  IF i >= Cardinality(DOMAIN activities) THEN <<>>
  ELSE IF Truthy(activities[i]) /\ activities[i].dayType # "rest"
       THEN LET start == IF consecutive = 0 THEN i ELSE streakStart
            IN  IF consecutive + 1 >= 4
                THEN <<Check("consecutive-training", <<start, i>>, "warning")>>
                     \o ConsecutiveTraining_noBreak(activities, i + 1,
                                                    consecutive + 1, start)
                ELSE ConsecutiveTraining_noBreak(activities, i + 1,
                                                 consecutive + 1, start)
       ELSE ConsecutiveTraining_noBreak(activities, i + 1, 0, streakStart)

RECURSIVE ConsecutiveTraining(_, _, _, _)
\* rule 5, lines 146-163: the loop from index i on, with its two counters
ConsecutiveTraining(activities, i, consecutive, streakStart) ==
  IF i >= Cardinality(DOMAIN activities) THEN <<>>
  ELSE IF Truthy(activities[i]) /\ activities[i].dayType # "rest"
       THEN LET start == IF consecutive = 0 THEN i ELSE streakStart
            IN  IF consecutive + 1 >= 4
                THEN <<Check("consecutive-training", <<start, i>>, "warning")>>
                ELSE ConsecutiveTraining(activities, i + 1, consecutive + 1, start)
       ELSE ConsecutiveTraining(activities, i + 1, 0, streakStart)

\* mutant: the all-clear check is pushed whatever the list holds
WithAllClear_always(checks) == Append(checks, Check("all-clear", <<>>, "pass"))

\* rule 6, lines 166-173
WithAllClear(checks) ==
  IF Len(checks) = 0 THEN Append(checks, Check("all-clear", <<>>, "pass")) ELSE checks

evaluateConstraints(assigned) ==
  LET activities == [d \in DOMAIN assigned |-> assigned[d].activity]
      last == Cardinality(DOMAIN assigned) - 1
  IN  WithAllClear(
        PushedChecks(0, last - 1,
                     LAMBDA i : BackToBackHard(activities[i], activities[i + 1]),
                     LAMBDA i : Check("back-to-back-hard", <<i>>, "error"))
        \o PushedChecks(0, last - 1,
                        LAMBDA i : AdjacentRun(activities[i], activities[i + 1]),
                        LAMBDA i : Check("adjacent-run", <<i>>, "warning"))
        \o PushedChecks(1, last,
                        LAMBDA i : NoRestBeforeHard(activities[i], activities[i - 1]),
                        LAMBDA i : Check("no-rest-before-hard", <<i>>, "warning"))
        \o PushedChecks(0, last - 1,
                        LAMBDA i : NoRecoveryAfterHard(activities[i], activities[i + 1]),
                        LAMBDA i : Check("no-recovery-after-hard", <<i>>, "warning"))
        \o ConsecutiveTraining(activities, 0, 0, 0))

\* mutant: Sunday's activity is left out of the totals
PlacedActivities_skipSunday(assigned) ==
  LET held == SelectSeq(LoopIndices(1, Cardinality(DOMAIN assigned) - 1),
                        LAMBDA d : Truthy(assigned[d].activity))
  IN  [k \in 1..Len(held) |-> assigned[held[k]].activity]

\* line 186: assignments.map((a) => a.activity).filter(Boolean)
PlacedActivities(assigned) ==
  LET held == SelectSeq(LoopIndices(0, Cardinality(DOMAIN assigned) - 1),
                        LAMBDA d : Truthy(assigned[d].activity))
  IN  [k \in 1..Len(held) |-> assigned[held[k]].activity]

RECURSIVE SumOf(_, _)
\* list.reduce((s, a) => s + a[field], 0)
SumOf(list, field) ==
  IF list = <<>> THEN 0 ELSE Head(list)[field] + SumOf(Tail(list), field)

\* CURRENT_ACWR = 0.93, in hundredths
CURRENT_ACWR == 93

\* RUN_PACE_KM_PER_MIN = 0.167, in thousandths
RUN_PACE_KM_PER_MIN == 167

(* computePredictedMetrics; totalRunKm is in tenths of a km, estimatedACWR *)
(* and sleepTargetAvg are in hundredths and tenths.                         *)
computePredictedMetrics(assigned) ==
  LET activities == PlacedActivities(assigned)
      totalTrainingMin == SumOf(activities, "duration")
      runActivities == SelectSeq(activities, LAMBDA a : a.isRunning)
      bikeActivities == SelectSeq(activities, LAMBDA a : ~a.isRunning /\ a.duration > 0)
      totalRunMin == SumOf(runActivities, "duration")
      tempo == SelectSeq(activities, LAMBDA a : a.id = "tempo-run")
      totalZone2Min == totalTrainingMin - (IF tempo # <<>> THEN tempo[1].duration ELSE 0)
      totalTRIMP == SumOf(activities, "estimatedTRIMP")
      \* weeklyLoad / (weeklyLoad / CURRENT_ACWR) rounds to CURRENT_ACWR; a
      \* chronic load of 0 gives 0, which `|| 1.05` replaces
      estimatedACWR == IF totalTRIMP > 0 THEN CURRENT_ACWR ELSE 105
  IN  [totalTrainingMin |-> totalTrainingMin,
       totalRunKm |-> RoundDiv(totalRunMin * RUN_PACE_KM_PER_MIN, 100),
       totalBikeMin |-> SumOf(bikeActivities, "duration"),
       totalZone2Min |-> totalZone2Min,
       estimatedACWR |-> IF estimatedACWR < 70 THEN 70
                         ELSE IF estimatedACWR > 150 THEN 150 ELSE estimatedACWR,
       hardDays |-> Len(SelectSeq(activities, LAMBDA a : a.dayType = "hard")),
       easyDays |-> Len(SelectSeq(activities, LAMBDA a : a.dayType = "easy")),
       moderateDays |-> Len(SelectSeq(activities, LAMBDA a : a.dayType = "moderate")),
       restDays |-> 7 - Len(SelectSeq(activities, LAMBDA a : a.dayType # "rest")),
       sleepTargetAvg |-> 74,
       zone2Pct |-> IF totalTrainingMin > 0
                    THEN RoundDiv(totalZone2Min * 100, totalTrainingMin) ELSE 0,
       totalTRIMP |-> totalTRIMP]

getWorstSeverity(checks) ==
  IF \E k \in 1..Len(checks) : checks[k].severity = "error" THEN "error"
  ELSE IF \E k \in 1..Len(checks) : checks[k].severity = "warning" THEN "warning"
  ELSE "pass"

(* ---------------- weekly wizard handlers (WeeklyWizard.tsx) ----------- *)

\* next.indexOf(activityId): the first day holding the id, or -1
indexOf(arr, activityId) ==
  IF \E d \in DOMAIN arr : arr[d] = activityId
  THEN CHOOSE d \in DOMAIN arr :
         arr[d] = activityId /\ \A e \in DOMAIN arr : arr[e] = activityId => d <= e
  ELSE -1

\* mutant: the dragged id is written without moving the slot's activity back
handleAssign_overwrite(prev, dayIndex, activityId) ==
  [prev EXCEPT ![dayIndex] = activityId]

\* lines 42-59: the updater of setArrangement
handleAssign(prev, dayIndex, activityId) ==
  LET existingIdx == indexOf(prev, activityId)
      swapped == IF activityId # Null /\ existingIdx # -1 /\ existingIdx # dayIndex
                 THEN [prev EXCEPT ![existingIdx] = prev[dayIndex]]
                 ELSE prev
  IN  [swapped EXCEPT ![dayIndex] = activityId]

\* mutant: every slot is emptied
handleRemove_all(prev, dayIndex) == EmptyArrangement

\* lines 61-67
handleRemove(prev, dayIndex) == [prev EXCEPT ![dayIndex] = Null]

(* ------------------------------- state -------------------------------- *)

NoCandidate == Candidate("", <<>>, <<>>, <<>>)

NoScore ==
  [candidateId |-> "", composite |-> 0, newEdgesUnlocked |-> 0, newEdgePoints |-> 0,
   confoundersResolved |-> 0, confounderPoints |-> 0, signalBoostEdges |-> 0,
   signalBoostPoints |-> 0, tier |-> "low", unlockedMechanisms |-> <<>>,
   resolvedLatentNodes |-> <<>>, boostedEdgeTitles |-> <<>>]

NoTestability == [testable |-> <<>>, untestable |-> <<>>]

NoStats ==
  [totalMechanisms |-> 0, testableCount |-> 0, untestableCount |-> 0, testedPct |-> 0,
   avgPersonalWeight |-> 0, latentNodeCount |-> 0, fittedEdgeCount |-> 0]

\* no result is held
NoResults ==
  /\ call' = "none"
  /\ candidate' = NoCandidate
  /\ score' = NoScore
  /\ testability' = NoTestability
  /\ ranked' = <<>>
  /\ summaryStats' = NoStats

\* lines 28-32 of WeeklyWizard: what a render derives from the arrangement
Rendered(arr) ==
  TheOne({[assignments |-> a,
           unassigned |-> getUnassignedActivities(a),
           allPlaced |-> isFullyAssigned(a),
           constraints |-> evaluateConstraints(a),
           metrics |-> computePredictedMetrics(a)] : a \in {buildAssignments(arr)}})

\* an operation of the wizard, as lastOp records it
Op(op, day, text) == [op |-> op, day |-> day, text |-> text]

\* everything but the week handed to evaluateConstraints directly
InitButWeek ==
  /\ step = "arrange"
  /\ arrangement = EmptyArrangement
  /\ locked = FALSE
  /\ assignments = Rendered(EmptyArrangement).assignments
  /\ unassigned = Rendered(EmptyArrangement).unassigned
  /\ allPlaced = Rendered(EmptyArrangement).allPlaced
  /\ constraints = Rendered(EmptyArrangement).constraints
  /\ metrics = Rendered(EmptyArrangement).metrics
  /\ edits = 0
  /\ lastOp = Op("none", -1, Null)
  /\ evaluated = FALSE
  /\ weekChecks = <<>>
  /\ availableColumns = getAvailableColumns
  /\ edgeResults = <<>>
  /\ mechanismCatalog = MECHANISM_CATALOG
  /\ candidateSources = CANDIDATE_DATA_SOURCES
  /\ call = "none"
  /\ candidate = NoCandidate
  /\ score = NoScore
  /\ testability = NoTestability
  /\ ranked = <<>>
  /\ summaryStats = NoStats

Init ==
  /\ InitButWeek
  /\ week = buildAssignments(EmptyArrangement)

(* The caller drops the result it holds. *)
Forget ==
  /\ call # "none"
  /\ NoResults
  /\ UNCHANGED <<availableColumns, edgeResults, mechanismCatalog, candidateSources>>
  /\ UNCHANGED <<wizardVars, evaluateVars>>

(* The caller builds the column set from the devices that are connected. *)
SetAvailableColumns(devs) ==
  /\ call = "none"
  /\ Cardinality((DOMAIN DEVICE_TO_COLUMNS) \ devs) <= MaxMissingDevices
  /\ availableColumns' = ColumnsOfDevices(devs)
  /\ NoResults
  /\ UNCHANGED <<edgeResults, mechanismCatalog, candidateSources>>
  /\ UNCHANGED <<wizardVars, evaluateVars>>

(* The caller loads n fitted edges. *)
SetEdgeResults(n) ==
  /\ call = "none"
  /\ n <= MaxEdges
  /\ edgeResults' = EdgePrefix(n)
  /\ NoResults
  /\ UNCHANGED <<availableColumns, mechanismCatalog, candidateSources>>
  /\ UNCHANGED <<wizardVars, evaluateVars>>

GetCurrentlyTestableEdges ==
  /\ call \in {"none", "getCurrentlyTestableEdges"}
  /\ call' = "getCurrentlyTestableEdges"
  /\ testability' = getCurrentlyTestableEdges(availableColumns)
  /\ candidate' = NoCandidate
  /\ score' = NoScore
  /\ ranked' = <<>>
  /\ summaryStats' = NoStats
  /\ UNCHANGED <<availableColumns, edgeResults, mechanismCatalog, candidateSources>>
  /\ UNCHANGED <<wizardVars, evaluateVars>>

ComputeMarginalValue(cand) ==
  /\ call = "none" \/ (call = "computeMarginalValue" /\ candidate = cand)
  /\ \E r \in {computeMarginalValue(cand, availableColumns, edgeResults)} :
       /\ score' = r.score
       /\ availableColumns' = r.availableColumns
  /\ call' = "computeMarginalValue"
  /\ candidate' = cand
  /\ testability' = NoTestability
  /\ ranked' = <<>>
  /\ summaryStats' = NoStats
  /\ UNCHANGED <<edgeResults, mechanismCatalog, candidateSources>>
  /\ UNCHANGED <<wizardVars, evaluateVars>>

RankCandidates ==
  /\ call \in {"none", "rankCandidates"}
  /\ \E r \in {rankCandidates(availableColumns, edgeResults)} :
       /\ ranked' = r.results
       /\ candidateSources' = r.candidateSources
       /\ availableColumns' = r.availableColumns
  /\ call' = "rankCandidates"
  /\ candidate' = NoCandidate
  /\ score' = NoScore
  /\ testability' = NoTestability
  /\ summaryStats' = NoStats
  /\ UNCHANGED <<edgeResults, mechanismCatalog>>
  /\ UNCHANGED <<wizardVars, evaluateVars>>

ComputeSummaryStats ==
  /\ call \in {"none", "computeSummaryStats"}
  /\ call' = "computeSummaryStats"
  /\ summaryStats' = computeSummaryStats(edgeResults)
  /\ candidate' = NoCandidate
  /\ score' = NoScore
  /\ testability' = NoTestability
  /\ ranked' = <<>>
  /\ UNCHANGED <<availableColumns, edgeResults, mechanismCatalog, candidateSources>>
  /\ UNCHANGED <<wizardVars, evaluateVars>>

Next ==
  \/ Forget
  \/ \E devs \in SUBSET (DOMAIN DEVICE_TO_COLUMNS) : SetAvailableColumns(devs)
  \/ \E n \in 0..MaxEdges : SetEdgeResults(n)
  \/ GetCurrentlyTestableEdges
  \/ \E cand \in CandidateInputs : ComputeMarginalValue(cand)
  \/ RankCandidates
  \/ ComputeSummaryStats

Spec == Init /\ [][Next]_vars

(* ----------------------- weekly wizard actions ------------------------ *)

\* text/plain of a drag that does not start on an activity card
ForeignText == "Drag activity here"

\* what dataTransfer.getData('text/plain') can hold at a drop
DragTexts == {MUTABLE_ACTIVITIES[k].id : k \in 1..Len(MUTABLE_ACTIVITIES)} \cup {ForeignText}

\* setArrangement(arr) and the render that follows it
SetArrangement(arr) ==
  /\ arrangement' = arr
  /\ \E r \in {Rendered(arr)} :
       /\ assignments' = r.assignments
       /\ unassigned' = r.unassigned
       /\ allPlaced' = r.allPlaced
       /\ constraints' = r.constraints
       /\ metrics' = r.metrics

\* mutant: the Review Plan button is never disabled
ReviewEnabled_always == TRUE

\* ArrangeStep line 293: disabled={!allPlaced}
ReviewEnabled == allPlaced

\* ReviewStep lines 377-378
hasErrors == getWorstSeverity(constraints) = "error"

\* ReviewStep line 422: disabled={hasErrors}
LockInEnabled == ~hasErrors

\* mutant: Review Plan goes to the lock-in step
ArrangeNextStep_lockin == "lockin"

\* WeeklyWizard line 113: onNext={() => setStep('review')}
ArrangeNextStep == "review"

(* DayDropSlot.handleDrop -> onDrop -> handleAssign. *)
HandleDrop(dayIndex, activityId) ==
  /\ step = "arrange"
  /\ edits < MaxEdits
  /\ activityId # ""
  /\ SetArrangement(handleAssign(arrangement, dayIndex, activityId))
  /\ edits' = edits + 1
  /\ lastOp' = Op("drop", dayIndex, activityId)
  /\ UNCHANGED <<step, locked, engineVars, evaluateVars>>

(* The X button of a slot that shows an activity. *)
HandleRemove(dayIndex) ==
  /\ step = "arrange"
  /\ edits < MaxEdits
  /\ Truthy(assignments[dayIndex].activity)
  /\ SetArrangement(handleRemove(arrangement, dayIndex))
  /\ edits' = edits + 1
  /\ lastOp' = Op("remove", dayIndex, Null)
  /\ UNCHANGED <<step, locked, engineVars, evaluateVars>>

(* Use Default. *)
HandleLoadDefault ==
  /\ step = "arrange"
  /\ SetArrangement(DEFAULT_ARRANGEMENT)
  /\ edits' = 0
  /\ lastOp' = Op("loadDefault", -1, Null)
  /\ UNCHANGED <<step, locked, engineVars, evaluateVars>>

(* Reset. *)
HandleReset ==
  /\ step = "arrange"
  /\ SetArrangement(EmptyArrangement)
  /\ edits' = 0
  /\ lastOp' = Op("reset", -1, Null)
  /\ UNCHANGED <<step, locked, engineVars, evaluateVars>>

\* what a step change leaves alone
StepOnly ==
  UNCHANGED <<arrangement, assignments, unassigned, allPlaced, constraints, metrics,
              edits, engineVars, evaluateVars>>

(* Review Plan. *)
ArrangeNext ==
  /\ step = "arrange"
  /\ ReviewEnabled
  /\ step' = ArrangeNextStep
  /\ lastOp' = Op("arrangeNext", -1, Null)
  /\ UNCHANGED locked
  /\ StepOnly

(* Back to Arrange. *)
ReviewBack ==
  /\ step = "review"
  /\ step' = "arrange"
  /\ lastOp' = Op("reviewBack", -1, Null)
  /\ UNCHANGED locked
  /\ StepOnly

(* Lock In Plan (the button of the review step). *)
ReviewNext ==
  /\ step = "review"
  /\ LockInEnabled
  /\ step' = "lockin"
  /\ lastOp' = Op("reviewNext", -1, Null)
  /\ UNCHANGED locked
  /\ StepOnly

(* onLockIn of the lock-in step. *)
HandleLockIn ==
  /\ step = "lockin"
  /\ locked' = TRUE
  /\ lastOp' = Op("lockIn", -1, Null)
  /\ UNCHANGED step
  /\ StepOnly

(* onBack of the lock-in step. *)
LockInBack ==
  /\ step = "lockin"
  /\ step' = "review"
  /\ lastOp' = Op("lockInBack", -1, Null)
  /\ UNCHANGED locked
  /\ StepOnly

(* onStartOver of the lock-in step (Plan Another Week). *)
HandleUnlock ==
  /\ step = "lockin"
  /\ locked' = FALSE
  /\ step' = "arrange"
  /\ lastOp' = Op("unlock", -1, Null)
  /\ StepOnly

NextWizard ==
  \/ \E dayIndex \in Days, activityId \in DragTexts : HandleDrop(dayIndex, activityId)
  \/ \E dayIndex \in Days : HandleRemove(dayIndex)
  \/ HandleLoadDefault
  \/ HandleReset
  \/ ArrangeNext
  \/ ReviewBack
  \/ ReviewNext
  \/ HandleLockIn
  \/ LockInBack
  \/ HandleUnlock

SpecWizard == Init /\ [][NextWizard]_vars

(* ------------- evaluateConstraints called on a week directly ---------- *)

\* the arrangements that differ from DEFAULT_ARRANGEMENT in the slots of changed
ChangedIn(changed) ==
  {[d \in Days |-> IF d \in changed THEN f[d] ELSE DEFAULT_ARRANGEMENT[d]] :
     f \in [changed -> (DragTexts \ {ForeignText}) \cup {Null}]}

\* the weeks handed to evaluateConstraints
WeekInputs ==
  UNION {ChangedIn(changed) :
           changed \in {c \in SUBSET Days : Cardinality(c) <= MaxChanged}}

\* the week is one of the inputs, and evaluateConstraints has not been called
InitEvaluate ==
  /\ InitButWeek
  /\ week \in {buildAssignments(arr) : arr \in WeekInputs}

EvaluateConstraints ==
  /\ ~evaluated
  /\ evaluated' = TRUE
  /\ weekChecks' = evaluateConstraints(week)
  /\ UNCHANGED <<week, engineVars, wizardVars>>

NextEvaluate == EvaluateConstraints

SpecEvaluate == InitEvaluate /\ [][NextEvaluate]_vars

(* ============================== claims ================================ *)

\* the columns of a family id of a table, none when the id is not defined
FamilyColumnSet(table, famId) ==
  IF famId \in DOMAIN table THEN Range(table[famId].columns) ELSE {}

\* a mechanism has a dose column and a response column in cols
TestableWith(mech, cols) ==
  /\ FamilyColumnSet(DOSE_FAMILIES, mech.doseFamily) \cap cols # {}
  /\ FamilyColumnSet(RESPONSE_FAMILIES, mech.responseFamily) \cap cols # {}

\* mechanisms whose dose or response family id is not defined
DanglingMechanisms ==
  {[id |-> "dangling_dose", doseFamily |-> "no_such_family",
    responseFamily |-> "ferritin", category |-> "metabolic"],
   [id |-> "dangling_response", doseFamily |-> "running_volume",
    responseFamily |-> "no_such_family", category |-> "metabolic"]}

(* C1: getCurrentlyTestableEdges lists a catalog mechanism as testable if  *)
(* and only if a column of its dose family and a column of its response    *)
(* family are available; a mechanism with an undefined family id is        *)
(* classified untestable.                                                   *)
C1_TestableIff ==
  /\ call = "getCurrentlyTestableEdges" =>
       \A i \in 1..Len(MECHANISM_CATALOG) :
          LET mech == MECHANISM_CATALOG[i]
          IN  /\ (\E k \in 1..Len(testability.testable) :
                     testability.testable[k].mechanism = mech)
                  <=> TestableWith(mech, availableColumns)
              /\ (\E k \in 1..Len(testability.untestable) :
                     testability.untestable[k].mechanism = mech)
                  <=> ~TestableWith(mech, availableColumns)
  /\ \A mech \in DanglingMechanisms :
       ~TestabilityEntry(mech, availableColumns).testable

C1_Witness ==
  /\ call = "getCurrentlyTestableEdges"
  /\ testability.testable # <<>>
  /\ \E k \in 1..Len(testability.untestable) :
       /\ testability.untestable[k].hasDoseData
       /\ ~testability.untestable[k].hasResponseData
  /\ \E k \in 1..Len(testability.untestable) :
       /\ ~testability.untestable[k].hasDoseData
       /\ testability.untestable[k].hasResponseData

\* the available columns with everything the candidate brings
AugmentedWith(cand, cols) ==
  cols \cup Range(cand.newColumns)
       \cup UNION {FamilyColumnSet(DOSE_FAMILIES, f) : f \in Range(cand.newDoseFamilies)}
       \cup UNION {FamilyColumnSet(RESPONSE_FAMILIES, f) :
                     f \in Range(cand.newResponseFamilies)}

\* the catalog mechanisms the candidate makes testable
UnlockedSet(cand, cols) ==
  UNION {{mech \in Range(MECHANISM_CATALOG) :
            TestableWith(mech, augmented) /\ ~TestableWith(mech, cols)} :
         augmented \in {AugmentedWith(cand, cols)}}

(* C2: unlockedMechanisms is exactly the set of catalog mechanisms testable *)
(* with the augmented columns and not with the available ones, each once;   *)
(* newEdgesUnlocked is its size.                                            *)
C2_UnlockedExact ==
  call = "computeMarginalValue" =>
    \A unlocked \in {UnlockedSet(candidate, availableColumns)} :
       /\ Range(score.unlockedMechanisms) = unlocked
       /\ Len(score.unlockedMechanisms) = Cardinality(unlocked)
       /\ score.newEdgesUnlocked = Cardinality(unlocked)

C2_Witness ==
  /\ call = "computeMarginalValue"
  /\ score.newEdgesUnlocked >= 2
  /\ \E mech \in Range(MECHANISM_CATALOG) : TestableWith(mech, availableColumns)
  /\ \E mech \in Range(MECHANISM_CATALOG) :
       ~TestableWith(mech, AugmentedWith(candidate, availableColumns))

(* C3: composite = min(100, newEdgePoints + confounderPoints +             *)
(* signalBoostPoints) and 0 <= composite <= 100.                            *)
C3_CompositeCapped ==
  call = "computeMarginalValue" =>
    LET sum == score.newEdgePoints + score.confounderPoints + score.signalBoostPoints
    IN  /\ score.composite = (IF sum > 100 THEN 100 ELSE sum)
        /\ score.composite >= 0
        /\ score.composite <= 100

C3_Witness ==
  /\ call = "computeMarginalValue"
  /\ score.newEdgePoints > 0
  /\ score.confounderPoints > 0
  /\ score.signalBoostPoints > 0
  /\ score.composite = 100

(* C4: newEdgePoints = min(40, 15 * newEdgesUnlocked), confounderPoints =   *)
(* min(30, 15 * confoundersResolved), signalBoostPoints = min(30, 5 *       *)
(* signalBoostEdges); they never exceed 40, 30 and 30.                      *)
C4_PointCaps ==
  call = "computeMarginalValue" =>
    /\ score.newEdgePoints =
         (IF 15 * score.newEdgesUnlocked > 40 THEN 40 ELSE 15 * score.newEdgesUnlocked)
    /\ score.confounderPoints =
         (IF 15 * score.confoundersResolved > 30 THEN 30 ELSE 15 * score.confoundersResolved)
    /\ score.signalBoostPoints =
         (IF 5 * score.signalBoostEdges > 30 THEN 30 ELSE 5 * score.signalBoostEdges)
    /\ score.newEdgePoints <= 40
    /\ score.confounderPoints <= 30
    /\ score.signalBoostPoints <= 30

C4_Witness ==
  /\ call = "computeMarginalValue"
  /\ 15 * score.newEdgesUnlocked > 40
  /\ 15 * score.confoundersResolved > 30
  /\ 5 * score.signalBoostEdges > 30

\* the tiers from lowest to highest
TierRank(tier) ==
  CASE tier = "low" -> 0
    [] tier = "moderate" -> 1
    [] tier = "high" -> 2
    [] tier = "transformative" -> 3

\* every score held in the state
ScoresHeld ==
  (IF call = "computeMarginalValue" THEN {score} ELSE {})
    \cup {ranked[i].score : i \in 1..Len(ranked)}

(* C5: the tier is 'transformative' for composite >= 70, 'high' for 45..69, *)
(* 'moderate' for 20..44 and 'low' below 20; a higher composite never gets  *)
(* a lower tier.                                                            *)
C5_TierByComposite ==
  /\ \A s \in ScoresHeld :
       /\ s.tier = "transformative" <=> s.composite >= 70
       /\ s.tier = "high" <=> (45 <= s.composite /\ s.composite < 70)
       /\ s.tier = "moderate" <=> (20 <= s.composite /\ s.composite < 45)
       /\ s.tier = "low" <=> s.composite < 20
  /\ \A s1, s2 \in ScoresHeld :
       s1.composite >= s2.composite => TierRank(s1.tier) >= TierRank(s2.tier)

C5_Witness ==
  /\ call = "computeMarginalValue"
  /\ score.composite = 45
  /\ score.tier = "high"

\* how many entries of a list satisfy Test
CountIn(list, Test(_)) == Cardinality({k \in 1..Len(list) : Test(list[k])})

(* C6: rankCandidates returns every candidate of CANDIDATE_DATA_SOURCES     *)
(* exactly once, each with the score computeMarginalValue gives it for the  *)
(* same columns and edge results, in order of non-increasing composite.     *)
C6_RankedAllSortedDesc ==
  call = "rankCandidates" =>
    /\ Len(ranked) = Len(CANDIDATE_DATA_SOURCES)
    /\ \A i \in 1..Len(CANDIDATE_DATA_SOURCES) :
         CountIn(ranked, LAMBDA e : e.candidate = CANDIDATE_DATA_SOURCES[i]) = 1
    /\ \A k \in 1..Len(ranked) :
         ranked[k].score =
           computeMarginalValue(ranked[k].candidate, availableColumns, edgeResults).score
    /\ \A k \in 1..(Len(ranked) - 1) :
         ranked[k].score.composite >= ranked[k + 1].score.composite

C6_Witness ==
  /\ call = "rankCandidates"
  /\ Cardinality({ranked[k].score.composite : k \in 1..Len(ranked)}) >= 4
  /\ \E k \in 1..(Len(ranked) - 1) :
       ranked[k].score.composite = ranked[k + 1].score.composite
  /\ \E k \in 1..Len(ranked) : ranked[k].candidate # CANDIDATE_DATA_SOURCES[k]

(* C7: getCurrentlyTestableEdges places each of the 65 catalog mechanisms   *)
(* in exactly one of its two lists; computeSummaryStats reports             *)
(* testableCount + untestableCount = totalMechanisms = 65.                  *)
C7_PartitionOf65 ==
  /\ call = "getCurrentlyTestableEdges" =>
       /\ Len(testability.testable) + Len(testability.untestable) = 65
       /\ \A i \in 1..Len(MECHANISM_CATALOG) :
            CountIn(testability.testable,
                    LAMBDA e : e.mechanism = MECHANISM_CATALOG[i])
              + CountIn(testability.untestable,
                        LAMBDA e : e.mechanism = MECHANISM_CATALOG[i]) = 1
  /\ call = "computeSummaryStats" =>
       /\ summaryStats.testableCount + summaryStats.untestableCount
            = summaryStats.totalMechanisms
       /\ summaryStats.totalMechanisms = 65

C7_Witness ==
  /\ call = "getCurrentlyTestableEdges"
  /\ Len(testability.testable) >= 10
  /\ Len(testability.untestable) >= 10
  /\ Len(MECHANISM_CATALOG) = 65

(* C8: computeMarginalValue and rankCandidates leave the available columns, *)
(* the catalog, the candidate list and the edge results as they were, and   *)
(* a second call with the same inputs returns the same result.              *)
C8_InputsUntouched ==
  [][call' \in {"computeMarginalValue", "rankCandidates"} =>
       /\ availableColumns' = availableColumns
       /\ mechanismCatalog' = mechanismCatalog
       /\ candidateSources' = candidateSources
       /\ edgeResults' = edgeResults
       /\ (call = "computeMarginalValue" /\ call' = call /\ candidate' = candidate)
            => score' = score
       /\ (call = "rankCandidates" /\ call' = call) => ranked' = ranked]_vars

C8_Witness ==
  /\ call = "computeMarginalValue"
  /\ ~(Range(candidate.newColumns) \subseteq availableColumns)
  /\ score.newEdgesUnlocked > 0
  /\ availableColumns # getAvailableColumns

\* the upper-case letters and their lower-case letters
ClaimUpperCase ==
  <<"A","B","C","D","E","F","G","H","I","J","K","L","M",
    "N","O","P","Q","R","S","T","U","V","W","X","Y","Z">>

ClaimLowerCase ==
  <<"a","b","c","d","e","f","g","h","i","j","k","l","m",
    "n","o","p","q","r","s","t","u","v","w","x","y","z">>

ClaimLowerMap ==
  [ch \in Range(ClaimUpperCase) |->
     ClaimLowerCase[CHOOSE k \in 1..26 : ClaimUpperCase[k] = ch]]

\* lower-case letter of a character
ClaimLowerChar(ch) == IF ch \in DOMAIN ClaimLowerMap THEN ClaimLowerMap[ch] ELSE ch

\* the characters of a string in lower case
ClaimLower(str) == [k \in 1..Len(CharsOf[str]) |-> ClaimLowerChar(CharsOf[str][k])]

RECURSIVE ClaimStrip(_)
\* a character sequence without its underscores
ClaimStrip(cs) ==
  IF cs = <<>> THEN <<>>
  ELSE IF Head(cs) = "_" THEN ClaimStrip(Tail(cs))
  ELSE <<Head(cs)>> \o ClaimStrip(Tail(cs))

\* part occurs in whole as a contiguous run
ClaimContains(whole, part) ==
  \E before \in 0..Len(whole) :
     /\ before + Len(part) <= Len(whole)
     /\ \A t \in 1..Len(part) : whole[before + t] = part[t]

\* the substring heuristic as the claim words it
ClaimProxy(col, latent) ==
  \E c \in {ClaimLower(col)}, l \in {ClaimStrip(ClaimLower(latent))} :
     ClaimContains(c, l) \/ ClaimContains(l, ClaimStrip(c))

\* the latent nodes the per-id special cases add
SpecialNodes(id) ==
  CASE id = "body_temperature" -> {"core_temperature"}
    [] id = "mood_stress" -> {"energy_expenditure"}
    [] id = "genetic_data" -> {"insulin_sensitivity", "lipoprotein_lipase"}
    [] OTHER -> {}

(* C9: apart from the per-id special cases, a latent node is resolved if    *)
(* and only if some new column contains its name (lower case, underscores   *)
(* removed) or its name contains the column (both without underscores); a   *)
(* candidate without new columns and without a special case resolves none   *)
(* and gets confounderPoints = 0.                                           *)
C9_SubstringHeuristic ==
  call = "computeMarginalValue" =>
    /\ \A latent \in Range(LATENT_NODES) \ SpecialNodes(candidate.id) :
         latent \in Range(score.resolvedLatentNodes)
           <=> \E col \in Range(candidate.newColumns) : ClaimProxy(col, latent)
    /\ (candidate.newColumns = <<>> /\ SpecialNodes(candidate.id) = {})
         => (score.resolvedLatentNodes = <<>> /\ score.confounderPoints = 0)

C9_Witness ==
  /\ call = "computeMarginalValue"
  /\ SpecialNodes(candidate.id) = {}
  /\ "core_temperature" \in Range(score.resolvedLatentNodes)
  /\ "leptin" \notin Range(score.resolvedLatentNodes)
  /\ "core_temperature" \in Range(candidate.newColumns)

ClaimIn(str, part) == ClaimContains(CharsOf[str], CharsOf[part])

\* the title in lower case contains part
ClaimTitleIn(title, part) == ClaimContains(ClaimLower(title), CharsOf[part])

\* the rule of a candidate id; an id without a rule matches no edge
ClaimBoostRule(id, e) ==
  CASE id = "monthly_labs" -> e.eff_n < 20
    [] id = "dedicated_hrv" -> ClaimIn(e.target, "hrv") \/ ClaimIn(e.source, "hrv")
    [] id = "cgm" -> \/ ClaimIn(e.target, "glucose") \/ ClaimIn(e.source, "glucose")
                     \/ ClaimIn(e.target, "insulin") \/ ClaimIn(e.target, "hba1c")
    [] id = "nutrition" -> ClaimIn(e.source, "dietary") \/ ClaimIn(e.source, "protein")
    [] id = "blood_pressure" -> \/ ClaimIn(e.target, "resting_hr")
                                \/ ClaimIn(e.target, "hr_7d")
                                \/ ClaimTitleIn(e.title, "cardio")
    [] id = "mood_stress" -> \/ ClaimIn(e.target, "cortisol")
                             \/ ClaimIn(e.target, "testosterone")
                             \/ ClaimTitleIn(e.title, "sleep")
    [] id = "respiratory_rate" -> ClaimIn(e.target, "hrv") \/ ClaimIn(e.target, "sleep")
    [] id = "body_temperature" -> ClaimIn(e.target, "sleep") \/ ClaimTitleIn(e.title, "sleep")
    [] OTHER -> FALSE

\* the number of edge results matching the rule of id
ClaimBoostCount(id, edges) ==
  Cardinality({k \in 1..Len(edges) : ClaimBoostRule(id, edges[k])})

\* the candidate ids the engine has no signal-boost rule for
IdsWithoutRule == {"genetic_data", "sleep_lab"}

(* C11: signalBoostEdges depends only on the candidate's id and the edge    *)
(* results: it is the number of edge results matching the id's rule (eff_n  *)
(* below 20 for 'monthly_labs'), 0 for an id without a rule whatever the    *)
(* edge results, and 0 for every candidate when there are no edge results;  *)
(* the candidate's columns and families and the column set play no part.    *)
C11_SignalBoostByIdAndEdges ==
  /\ call = "computeMarginalValue" =>
       /\ score.signalBoostEdges = ClaimBoostCount(candidate.id, edgeResults)
       /\ candidate.id \in IdsWithoutRule => score.signalBoostEdges = 0
       /\ edgeResults = <<>> => score.signalBoostEdges = 0
       /\ candidate.id = "monthly_labs" =>
            score.signalBoostEdges =
              CountIn(edgeResults, LAMBDA e : e.eff_n < 20)

C11_Witness ==
  /\ call = "computeMarginalValue"
  /\ candidate.id = "mood_stress"
  /\ candidate.newColumns # <<>>
  /\ availableColumns # getAvailableColumns
  /\ score.signalBoostEdges = 4
  /\ Len(edgeResults) = MaxEdges

\* the ids of the seven activities
ActivityIds == {MUTABLE_ACTIVITIES[k].id : k \in 1..Len(MUTABLE_ACTIVITIES)}

\* the ids of the activities in a list of activities
IdsOf(list) == {list[k].id : k \in 1..Len(list)}

\* the days whose slot holds id
SlotsOf(arr, id) == {d \in Days : arr[d] = id}

\* the step drops activity a onto the slot of day d, which holds activity b
DropsOnto(d, a, b) ==
  /\ lastOp' = Op("drop", d, a)
  /\ arrangement[d] = b
  /\ a # b

(* C12: dropping activity A onto a day slot that holds activity B swaps     *)
(* them: afterwards A is in that slot and B is where A was, which is A's    *)
(* previous day slot or, when A came from the pool, the unassigned pool;    *)
(* every other day slot is unchanged.                                       *)
C12_DropOnOccupiedSwaps ==
  [][\A d \in Days, a \in ActivityIds, b \in ActivityIds :
       DropsOnto(d, a, b) =>
         /\ arrangement'[d] = a
         /\ assignments'[d].activity = FindActivity(a)
         /\ \A e \in SlotsOf(arrangement, a) :
              /\ arrangement'[e] = b
              /\ \A other \in Days \ {d, e} : arrangement'[other] = arrangement[other]
              /\ IdsOf(unassigned') = IdsOf(unassigned)
         /\ SlotsOf(arrangement, a) = {} =>
              /\ a \in IdsOf(unassigned)
              /\ IdsOf(unassigned') = (IdsOf(unassigned) \ {a}) \cup {b}
              /\ \A other \in Days \ {d} : arrangement'[other] = arrangement[other]]_vars

\* a drop on the full default week that moved two activities
C12_Witness ==
  /\ lastOp.op = "drop"
  /\ edits = 1
  /\ allPlaced
  /\ arrangement[lastOp.day] = lastOp.text
  /\ DEFAULT_ARRANGEMENT[lastOp.day] # lastOp.text
  /\ \E e \in Days : arrangement[e] = DEFAULT_ARRANGEMENT[lastOp.day]

\* every day of the week holds one of the seven activities
WeekIsFull ==
  /\ \A d \in Days : arrangement[d] \in ActivityIds
  /\ \A d \in Days : Truthy(assignments[d].activity)

(* C13: the wizard leaves the arrange step for review only when all seven   *)
(* slots hold an activity, and the arrangement does not change outside the  *)
(* arrange step; so in every state with step 'review' or 'lockin' every day *)
(* has an activity and the unassigned pool is empty.                        *)
C13_ReviewedWeekIsFull ==
  /\ [](step \in {"review", "lockin"} => (WeekIsFull /\ unassigned = <<>>))
  /\ [][/\ (step = "arrange" /\ step' # "arrange") => (WeekIsFull /\ step' = "review")
        /\ step # "arrange" => (arrangement' = arrangement /\ assignments' = assignments)
       ]_vars

\* a week edited after Use Default is under review
C13_Witness ==
  /\ step = "review"
  /\ lastOp.op = "arrangeNext"
  /\ edits > 0
  /\ arrangement # DEFAULT_ARRANGEMENT

(* C14: the wizard enters the lock-in step only from the review step and    *)
(* only when no constraint check has severity 'error'; it never goes from   *)
(* the arrange step to the lock-in step directly.                           *)
C14_LockInOnlyFromCleanReview ==
  [][(step # "lockin" /\ step' = "lockin") =>
       /\ step = "review"
       /\ \A k \in 1..Len(constraints) : constraints[k].severity # "error"
       /\ constraints' = constraints]_vars

\* the lock-in step was entered from a review that showed warnings
C14_Witness ==
  /\ step = "lockin"
  /\ lastOp.op = "reviewNext"
  /\ getWorstSeverity(constraints) = "warning"

\* the ids of the activities the week places
PlacedIds == {assignments[d].activity.id : d \in Days} \ {Null}

(* C15: after any sequence of wizard operations the arrangement has exactly *)
(* seven day slots and no activity id is in more than one slot; the placed  *)
(* activities and the pool of getUnassignedActivities are disjoint and      *)
(* together are exactly the seven MUTABLE_ACTIVITIES.                       *)
C15_SevenSlotsNoDuplicates ==
  /\ DOMAIN arrangement = Days
  /\ Cardinality(DOMAIN arrangement) = 7
  /\ \A d, e \in Days :
       (arrangement[d] # Null /\ arrangement[d] = arrangement[e]) => d = e
  /\ PlacedIds \cap IdsOf(unassigned) = {}
  /\ PlacedIds \cup IdsOf(unassigned) = ActivityIds
  /\ Cardinality(PlacedIds) + Len(unassigned) = Len(MUTABLE_ACTIVITIES)
  /\ unassigned = getUnassignedActivities(buildAssignments(arrangement))

\* after two drops a slot holds a dragged text that is no activity id, and two
\* activities are in the pool
C15_Witness ==
  /\ lastOp.op = "drop"
  /\ edits = 2
  /\ Len(unassigned) = 2
  /\ \E d \in Days : arrangement[d] = ForeignText

(* C16: handleRemove(d) empties slot d and leaves the six others unchanged; *)
(* Reset empties all seven slots; Use Default sets the arrangement to       *)
(* DEFAULT_ARRANGEMENT, which places each of the seven activities exactly   *)
(* once, so the week is fully assigned right after it.                      *)
C16_RemoveResetDefault ==
  [][/\ lastOp'.op = "remove" =>
          /\ arrangement'[lastOp'.day] = Null
          /\ \A other \in Days \ {lastOp'.day} : arrangement'[other] = arrangement[other]
     /\ lastOp'.op = "reset" =>
          /\ \A d \in Days : arrangement'[d] = Null
          /\ Len(unassigned') = Len(MUTABLE_ACTIVITIES)
     /\ lastOp'.op = "loadDefault" =>
          /\ arrangement' = DEFAULT_ARRANGEMENT
          /\ \A id \in ActivityIds : Cardinality(SlotsOf(arrangement', id)) = 1
          /\ allPlaced'
          /\ isFullyAssigned(assignments')
          /\ unassigned' = <<>>]_vars

\* one activity was removed from the default week
C16_Witness ==
  /\ lastOp.op = "remove"
  /\ edits = 1
  /\ arrangement[lastOp.day] = Null
  /\ Cardinality({d \in Days : arrangement[d] = DEFAULT_ARRANGEMENT[d]}) = 6

\* the arrangement with the slots of days i and j exchanged
Exchanged(arr, i, j) == [arr EXCEPT ![i] = arr[j], ![j] = arr[i]]

\* the totals of a PredictedMetrics object
TotalsOf(m) ==
  <<m.totalTrainingMin, m.totalRunKm, m.totalBikeMin, m.totalZone2Min, m.totalTRIMP,
    m.hardDays, m.easyDays, m.moderateDays, m.restDays, m.zone2Pct>>

(* C17: computePredictedMetrics returns the same totals (training minutes,  *)
(* run km, bike minutes, Zone 2 minutes, TRIMP, hard / easy / moderate /    *)
(* rest day counts, Zone 2 percentage) for any two arrangements that place  *)
(* the same activities, whatever the days: exchanging the contents of two   *)
(* neighbouring day slots, which generates every such rearrangement, leaves *)
(* the totals of the rendered metrics unchanged.                            *)
C17_TotalsIgnoreDays ==
  /\ metrics = computePredictedMetrics(assignments)
  /\ \A i \in {d \in Days : d + 1 \in Days} :
       TotalsOf(computePredictedMetrics(buildAssignments(Exchanged(arrangement, i, i + 1))))
         = TotalsOf(metrics)

\* a rearranged full week shows the totals of the default week
C17_Witness ==
  /\ allPlaced
  /\ lastOp.op = "drop"
  /\ arrangement # DEFAULT_ARRANGEMENT
  /\ arrangement[0] # "rest-1"
  /\ TotalsOf(metrics) =
       TotalsOf(computePredictedMetrics(buildAssignments(DEFAULT_ARRANGEMENT)))
  /\ metrics.totalTrainingMin = 260
  /\ metrics.totalRunKm = 209

\* the activity of day d of the week handed to evaluateConstraints
OnDay(d) == week[d].activity

\* day d of the week holds an activity of the day type
IsType(d, dayType) == d \in Days /\ OnDay(d) # NoActivity /\ OnDay(d).dayType = dayType

\* day d holds an activity other than rest
IsTraining(d) == d \in Days /\ OnDay(d) # NoActivity /\ OnDay(d).dayType # "rest"

\* day d holds a running activity
IsRun(d) == d \in Days /\ OnDay(d) # NoActivity /\ OnDay(d).isRunning

\* the maximal runs <<first, last>> of four or more consecutive training days
LongRuns ==
  {r \in Days \X Days :
     /\ r[2] - r[1] + 1 >= 4
     /\ \A d \in r[1]..r[2] : IsTraining(d)
     /\ ~IsTraining(r[1] - 1)
     /\ ~IsTraining(r[2] + 1)}

\* some rule of the engine is violated by the week
RuleViolated ==
  \/ \E d \in Days : IsType(d, "hard") /\ IsType(d + 1, "hard")
  \/ \E d \in Days : IsRun(d) /\ IsRun(d + 1)
  \/ \E d \in Days : IsType(d, "hard") /\ IsTraining(d - 1)
  \/ \E d \in Days : IsType(d, "hard") /\ IsType(d + 1, "moderate")
  \/ LongRuns # {}

\* the returned checks whose id is the rule name with the day indices
ChecksWithId(id) == {k \in 1..Len(weekChecks) : weekChecks[k].id = id}

(* C18: evaluateConstraints never returns an empty list: it returns the     *)
(* single 'all-clear' check with severity 'pass' if and only if no rule is  *)
(* violated, and a 'pass' check never comes with a warning or an error.     *)
C18_AllClearIffNoViolation ==
  evaluated =>
    /\ weekChecks # <<>>
    /\ weekChecks = <<Check("all-clear", <<>>, "pass")>> <=> ~RuleViolated
    /\ (\E k \in 1..Len(weekChecks) : weekChecks[k].severity = "pass") =>
         (Len(weekChecks) = 1 /\ weekChecks[1].id = <<"all-clear">>)
    /\ RuleViolated =>
         \A k \in 1..Len(weekChecks) : weekChecks[k].severity \in {"warning", "error"}

\* a week that is not the empty week is all clear
C18_Witness ==
  /\ evaluated
  /\ weekChecks = <<Check("all-clear", <<>>, "pass")>>
  /\ \E d \in Days : IsType(d, "hard")
  /\ Cardinality({d \in Days : IsTraining(d)}) >= 4

(* C19: two adjacent hard days (i, i+1) are reported once, as the error     *)
(* 'back-to-back-hard-i', and never also as the warning                     *)
(* 'no-recovery-after-hard-i'; that warning is raised exactly when day i is *)
(* hard and day i+1 holds a moderate activity.                              *)
C19_HardPairReportedOnce ==
  evaluated =>
    \A i \in Days :
       /\ (IsType(i, "hard") /\ IsType(i + 1, "hard")) =>
            /\ Cardinality(ChecksWithId(<<"back-to-back-hard", i>>)) = 1
            /\ \A k \in ChecksWithId(<<"back-to-back-hard", i>>) :
                 weekChecks[k].severity = "error"
            /\ ChecksWithId(<<"no-recovery-after-hard", i>>) = {}
       /\ ChecksWithId(<<"no-recovery-after-hard", i>>) # {}
            <=> (IsType(i, "hard") /\ IsType(i + 1, "moderate"))
       /\ Cardinality(ChecksWithId(<<"no-recovery-after-hard", i>>)) <= 1
       /\ \A k \in ChecksWithId(<<"no-recovery-after-hard", i>>) :
            weekChecks[k].severity = "warning"

\* a week with two adjacent hard days followed by a moderate day
C19_Witness ==
  /\ evaluated
  /\ \E i \in Days :
       /\ IsType(i, "hard") /\ IsType(i + 1, "hard") /\ IsType(i + 2, "moderate")
       /\ ChecksWithId(<<"back-to-back-hard", i>>) # {}
       /\ ChecksWithId(<<"no-recovery-after-hard", i + 1>>) # {}

(* C20: the '4+ consecutive training days' warning is flagged once per      *)
(* streak: the result holds exactly one such check for each maximal run of  *)
(* four or more consecutive days with a non-rest activity, and none when    *)
(* there is no such run; a rest day or an empty slot ends a run.            *)
C20_OneWarningPerStreak ==
  evaluated =>
    /\ Cardinality({k \in 1..Len(weekChecks) :
                      weekChecks[k].id[1] = "consecutive-training"})
         = Cardinality(LongRuns)
    /\ \A r \in LongRuns :
         /\ Cardinality(ChecksWithId(<<"consecutive-training", r[1], r[1] + 3>>)) = 1
         /\ \A k \in ChecksWithId(<<"consecutive-training", r[1], r[1] + 3>>) :
              weekChecks[k].severity = "warning"

\* a run of five or more training days that an empty slot ends
C20_Witness ==
  /\ evaluated
  /\ \E r \in LongRuns :
       /\ r[2] - r[1] + 1 >= 5
       /\ r[2] + 1 \in Days
       /\ OnDay(r[2] + 1) = NoActivity
       /\ ChecksWithId(<<"consecutive-training", r[1], r[1] + 3>>) # {}

====
